---- MODULE Spec2Model ----
(***************************************************************************)
(* A model of the background-remover image worker                          *)
(* (workers/imageProcessor.worker.ts), of the useImageProcessor hook and   *)
(* of the App / AppContext reducer that drive it.                          *)
(*                                                                         *)
(* Spec     the worker's message protocol: the onmessage dispatcher, the   *)
(*          chunked processImage loop with its setTimeout yields, the      *)
(*          isCancelled flag and every response posted.                    *)
(* SpecSel  magicSelect's flood fill, with the pending pixels taken from   *)
(*          the work stack in any order.                                   *)
(* SpecApp  the App component: magic selection, commits, Apply All and the *)
(*          process jobs it submits, from the freshly mounted app.         *)
(* SpecAppFilled  the same steps from an app that holds one region less    *)
(*          than MAX_MAGIC_REGIONS, so that commits reach consolidation.   *)
(* SpecPix  processImage on the pixels of one job: classification of the   *)
(*          alpha channel and the stamping of the applied magic regions.   *)
(* SpecRle  the RLE mask functions of lib/maskUtils.ts (and their copies   *)
(*          in the worker) applied to a pair of masks.                     *)
(***************************************************************************)
EXTENDS Integers, Sequences, FiniteSets, TLC

(***************************************************************************)
(* Bounds of the model and constants of the program.                       *)
(***************************************************************************)
\* Requests the caller posts to the worker in one behaviour.
MaxRequests == 2

\* const chunkSize = 250000 (pixels per chunk of processImage).
chunkSize == 250000

\* const PROGRESS_UPDATE_INTERVAL = 10.
PROGRESS_UPDATE_INTERVAL == 10

EdgeModes == {"hard", "feathered", "decontaminate", "smooth", "refine"}

Min(a, b) == IF a < b THEN a ELSE b
Max(a, b) == IF a > b THEN a ELSE b

\* Math.round of the non-negative rational num/den: floor(num/den + 1/2).
RoundDiv(num, den) == (2 * num + den) \div (2 * den)

(***************************************************************************)
(* Pixel buffers.  An image is [width, height, data]; data[p + 1] is the   *)
(* colour [r, g, b] of the pixel of row-major index p.  Reading a typed    *)
(* array outside its range gives undefined, and arithmetic on undefined    *)
(* gives NaN, for which every comparison is false.                         *)
(***************************************************************************)
undefined == -1

White == [r |-> 255, g |-> 255, b |-> 255]
Cream == [r |-> 250, g |-> 250, b |-> 250]
Grey == [r |-> 245, g |-> 245, b |-> 245]
Black == [r |-> 0, g |-> 0, b |-> 0]

UndefinedColor == [r |-> undefined, g |-> undefined, b |-> undefined]

\* data[idx], data[idx + 1], data[idx + 2] for idx = p << 2.
PixelAt(img, p) ==
  IF p >= 0 /\ p < img.width * img.height THEN img.data[p + 1] ELSE UndefinedColor

\* function colorDistanceSquared, weights {r: 2, g: 4, b: 3}.
colorDistanceSquared(r1, g1, b1, r2, g2, b2) ==
  LET rDiff == r1 - r2
      gDiff == g1 - g2
      bDiff == b1 - b2
  IN 2 * rDiff * rDiff + 4 * gDiff * gDiff + 3 * bDiff * bDiff

(***************************************************************************)
(* RLE masks.  A mask is a sequence of 0/1 (mask[i + 1] is index i); an    *)
(* RLE is the flat sequence start, length, start, length, ...              *)
(***************************************************************************)
RECURSIVE EncodeFrom(_, _, _, _, _)
\* The loop of encodeMaskToRLE from index i, and the final run.
EncodeFrom(mask, i, inRun, runStart, runs) ==
  IF i >= Len(mask)
  THEN IF inRun THEN runs \o <<runStart, Len(mask) - runStart>> ELSE runs
  ELSE LET isSelected == mask[i + 1] > 0
       IN IF isSelected /\ ~inRun
          THEN EncodeFrom(mask, i + 1, TRUE, i, runs)
          ELSE IF ~isSelected /\ inRun
               THEN EncodeFrom(mask, i + 1, FALSE, runStart,
                               runs \o <<runStart, i - runStart>>)
               ELSE EncodeFrom(mask, i + 1, inRun, runStart, runs)

encodeMaskToRLE(mask) == EncodeFrom(mask, 0, FALSE, 0, <<>>)

\* decodeMaskFromRLE with the end of a run inclusive: every run fills
\* start .. min(start + length, maskSize) with 1.
decodeMaskFromRLE_Inclusive(rle, maskSize) ==
  [p \in 1..maskSize |->
     IF \E k \in 1..(Len(rle) \div 2) :
          /\ rle[2 * k - 1] <= p - 1
          /\ p - 1 <= Min(rle[2 * k - 1] + rle[2 * k], maskSize)
     THEN 1 ELSE 0]

\* Every run fills start .. min(start + length, maskSize) - 1 with 1.
decodeMaskFromRLE(rle, maskSize) ==
  [p \in 1..maskSize |->
     IF \E k \in 1..(Len(rle) \div 2) :
          /\ rle[2 * k - 1] <= p - 1
          /\ p - 1 < Min(rle[2 * k - 1] + rle[2 * k], maskSize)
     THEN 1 ELSE 0]

(***************************************************************************)
(* magicSelect: the flood fill.  FillStepAt takes entry k of the work      *)
(* stack; the code always takes the last one (stack.pop()).                *)
(***************************************************************************)
\* distSq <= (tolerance * 4.42)^2 for an integer distSq, compared exactly:
\* distSq <= floor((442 * tolerance)^2 / 10000).
WithinTolerance(distSq, tolerance) ==
  distSq <= ((442 * tolerance) * (442 * tolerance)) \div 10000

\* FillInit without `visited[startY * width + startX] = 1`.
FillInit_Unmarked(img, startX, startY) ==
  [ stack |-> << <<startX, startY>> >>,
    visited |-> {},
    selected |-> {},
    minX |-> startX, maxX |-> startX, minY |-> startY, maxY |-> startY,
    totalR |-> 0, totalG |-> 0, totalB |-> 0,
    pixelCount |-> 0 ]

\* Lines 856-879: the state before the loop.
FillInit(img, startX, startY) ==
  [ stack |-> << <<startX, startY>> >>,
    visited |-> {startY * img.width + startX} \cap (0..(img.width * img.height - 1)),
    selected |-> {},
    minX |-> startX, maxX |-> startX, minY |-> startY, maxY |-> startY,
    totalR |-> 0, totalG |-> 0, totalB |-> 0,
    pixelCount |-> 0 ]

\* if (!visited[nIdx]) { visited[nIdx] = 1; stack.push(nx, ny) } for the
\* neighbours in the order left, right, up, down.
RECURSIVE PushNeighbours(_, _, _, _)
PushNeighbours(img, st, cands, i) ==
  IF i > Len(cands) THEN st
  ELSE LET c == cands[i]
           nIdx == c[2] * img.width + c[1]
       IN IF c[3] /\ nIdx \notin st.visited
          THEN PushNeighbours(img,
                 [st EXCEPT !.visited =
                              @ \cup ({nIdx} \cap (0..(img.width * img.height - 1))),
                            !.stack = Append(@, <<c[1], c[2]>>)],
                 cands, i + 1)
          ELSE PushNeighbours(img, st, cands, i + 1)

\* FillStepAt with drift: the pixel is compared with the average colour of
\* the pixels accepted so far instead of the seed colour.
FillStepAt_Drift(img, seed, tolerance, st, k) ==
  LET x == st.stack[k][1]
      y == st.stack[k][2]
      rest == [i \in 1..(Len(st.stack) - 1) |->
                 IF i < k THEN st.stack[i] ELSE st.stack[i + 1]]
      pixelIdx == y * img.width + x
      c == PixelAt(img, pixelIdx)
      ref == IF st.pixelCount > 0
             THEN [r |-> RoundDiv(st.totalR, st.pixelCount),
                   g |-> RoundDiv(st.totalG, st.pixelCount),
                   b |-> RoundDiv(st.totalB, st.pixelCount)]
             ELSE seed
      isNaN == c.r = undefined \/ seed.r = undefined
      accept == /\ ~isNaN
                /\ WithinTolerance(
                     colorDistanceSquared(c.r, c.g, c.b, ref.r, ref.g, ref.b),
                     tolerance)
      popped == [st EXCEPT !.stack = rest]
  IN IF ~accept THEN popped
     ELSE PushNeighbours(img,
            [popped EXCEPT
               !.selected = @ \cup {pixelIdx},
               !.pixelCount = @ + 1,
               !.minX = Min(@, x), !.maxX = Max(@, x),
               !.minY = Min(@, y), !.maxY = Max(@, y),
               !.totalR = @ + c.r, !.totalG = @ + c.g, !.totalB = @ + c.b],
            << <<x - 1, y, x > 0>>,
               <<x + 1, y, x < img.width - 1>>,
               <<x, y - 1, y > 0>>,
               <<x, y + 1, y < img.height - 1>> >>,
            1)

\* FillStepAt without the `Check up` block: the pixel above is not pushed.
FillStepAt_NoUp(img, seed, tolerance, st, k) ==
  LET x == st.stack[k][1]
      y == st.stack[k][2]
      rest == [i \in 1..(Len(st.stack) - 1) |->
                 IF i < k THEN st.stack[i] ELSE st.stack[i + 1]]
      pixelIdx == y * img.width + x
      c == PixelAt(img, pixelIdx)
      isNaN == c.r = undefined \/ seed.r = undefined
      accept == /\ ~isNaN
                /\ WithinTolerance(
                     colorDistanceSquared(c.r, c.g, c.b, seed.r, seed.g, seed.b),
                     tolerance)
      popped == [st EXCEPT !.stack = rest]
  IN IF ~accept THEN popped
     ELSE PushNeighbours(img,
            [popped EXCEPT
               !.selected = @ \cup {pixelIdx},
               !.pixelCount = @ + 1,
               !.minX = Min(@, x), !.maxX = Max(@, x),
               !.minY = Min(@, y), !.maxY = Max(@, y),
               !.totalR = @ + c.r, !.totalG = @ + c.g, !.totalB = @ + c.b],
            << <<x - 1, y, x > 0>>,
               <<x + 1, y, x < img.width - 1>>,
               <<x, y - 1, FALSE>>,
               <<x, y + 1, y < img.height - 1>> >>,
            1)

\* Lines 882-942: one pass of the while loop, taking stack entry k.
FillStepAt(img, seed, tolerance, st, k) ==
  LET x == st.stack[k][1]
      y == st.stack[k][2]
      rest == [i \in 1..(Len(st.stack) - 1) |->
                 IF i < k THEN st.stack[i] ELSE st.stack[i + 1]]
      pixelIdx == y * img.width + x
      c == PixelAt(img, pixelIdx)
      isNaN == c.r = undefined \/ seed.r = undefined
      accept == /\ ~isNaN
                /\ WithinTolerance(
                     colorDistanceSquared(c.r, c.g, c.b, seed.r, seed.g, seed.b),
                     tolerance)
      popped == [st EXCEPT !.stack = rest]
  IN IF ~accept THEN popped
     ELSE PushNeighbours(img,
            [popped EXCEPT
               !.selected = @ \cup {pixelIdx},
               !.pixelCount = @ + 1,
               !.minX = Min(@, x), !.maxX = Max(@, x),
               !.minY = Min(@, y), !.maxY = Max(@, y),
               !.totalR = @ + c.r, !.totalG = @ + c.g, !.totalB = @ + c.b],
            << <<x - 1, y, x > 0>>,
               <<x + 1, y, x < img.width - 1>>,
               <<x, y - 1, y > 0>>,
               <<x, y + 1, y < img.height - 1>> >>,
            1)

RECURSIVE FillRun(_, _, _, _)
\* while (stack.length > 0) with stack.pop().
FillRun(img, seed, tolerance, st) ==
  IF st.stack = <<>> THEN st
  ELSE FillRun(img, seed, tolerance,
               FillStepAt(img, seed, tolerance, st, Len(st.stack)))

\* Lines 945-976: the mask over the bounds, its RLE, the average colour.
BuildRegion(img, seed, st, id) ==
  LET boundsWidth == st.maxX - st.minX + 1
      boundsHeight == st.maxY - st.minY + 1
      mask == [p \in 1..(boundsWidth * boundsHeight) |->
                 LET lx == (p - 1) % boundsWidth
                     ly == (p - 1) \div boundsWidth
                 IN IF (st.minY + ly) * img.width + (st.minX + lx) \in st.selected
                    THEN 1 ELSE 0]
  IN [ id |-> id,
       maskRLE |-> encodeMaskToRLE(mask),
       bounds |-> [x |-> st.minX, y |-> st.minY,
                   width |-> boundsWidth, height |-> boundsHeight],
       pixelCount |-> st.pixelCount,
       averageColor |->
         IF st.pixelCount > 0
         THEN [r |-> RoundDiv(st.totalR, st.pixelCount),
               g |-> RoundDiv(st.totalG, st.pixelCount),
               b |-> RoundDiv(st.totalB, st.pixelCount)]
         ELSE seed,
       mode |-> "remove" ]

\* function magicSelect(imageData, startX, startY, tolerance); id stands for
\* crypto.randomUUID().
magicSelect(img, startX, startY, tolerance, id) ==
  LET seed == PixelAt(img, startY * img.width + startX)
  IN BuildRegion(img, seed,
                 FillRun(img, seed, tolerance, FillInit(img, startX, startY)),
                 id)

(***************************************************************************)
(* The worker's state.  Requests are numbered in the order the caller      *)
(* posts them; `sent` keeps them, the queues hold their numbers.           *)
(***************************************************************************)
VARIABLES
  isCancelled,   \* let isCancelled (module state of the worker)
  sent,          \* every request posted so far; sent[i] is request i
  inbox,         \* requests posted and not yet dispatched to self.onmessage
  timers,        \* processImage runs suspended in `await setTimeout(0)`
  outbox,        \* every response posted, [msg |-> response, to |-> request]
  cancelSeen,    \* process requests during whose run a cancel was handled
  selInput,      \* SpecSel: <<[imageData, x, y, tolerance]>> of the call
  selFill,       \* SpecSel: <<stack, visited, selected, min/max, totals>>
  selRegion,     \* SpecSel: <<>> while the fill runs, then <<the region>>
  selLifo,       \* SpecSel: every take so far was the code's stack.pop()
  appImage,               \* SpecApp: image.originalImageData, <<>> for null
  appSettings,            \* SpecApp: state.settings
  committedMagicRegions,  \* SpecApp: useState committedMagicRegions
  lastMagicToleranceRef,  \* SpecApp: lastMagicToleranceRef.current
  magicInFlight,          \* SpecApp: magicSelect requests not yet answered
  lastJob,                \* SpecApp: <<the last process message posted>>
  atSubmit,               \* SpecApp: <<[applied, committed]>>, the two lists
                          \*   of regions when lastJob was posted
  uuid,                   \* SpecApp: the next crypto.randomUUID()
  selections,             \* SpecApp: magicSelect requests posted so far
  removals,               \* SpecApp: regions removed so far
  pixJob,                 \* SpecPix: <<the process message>>, alpha channel
                          \*   of its buffer apart from the colours
  pixMask,                \* SpecPix: <<alphaMask after phase 1>> of a job with
                          \*   an advanced edge mode
  pixBefore,              \* SpecPix: <<alpha channel when stamping starts>>
  pixDone,                \* SpecPix: <<alpha channel of the complete response>>
  rleIn,                  \* SpecRle: [a, b], two masks of the same size
  rleEncoded,             \* SpecRle: <<[a, b]>>, their encodeMaskToRLE
  rleDecoded,             \* SpecRle: <<[a, b]>>, decodeMaskFromRLE of those
  rleMerged,              \* SpecRle: <<[ab, ba, aa]>>, mergeRLEMasks of those
  autoIn,                 \* SpecAuto: <<imageData of a calculateAutoThreshold request>>
  autoOut,                \* SpecAuto: <<the result of calculateAutoThreshold>>
  hookCaller,             \* SpecHook: <<the ImageData the caller passes to the hook>>
  hookIsProcessing,       \* SpecHook: isProcessing (state of the hook)
  hookToWorker,           \* SpecHook: messages posted to the worker, not yet handled
  hookFromWorker,         \* SpecHook: responses posted by the worker, not yet handled
  hookCompleted,          \* SpecHook: <<the imageData last given to onComplete>>
  hookCalls,              \* SpecHook: calls of processImage of the hook so far
  isProcessing,           \* SpecOverlap: isProcessing of useImageProcessor
  processedImageData,     \* SpecOverlap: <<the request whose result setProcessedImage stored>>
  handled,                \* SpecOverlap: responses of outbox that the hook has handled
  thrImage,               \* SpecThreshold: <<image.originalImageData>>
  thrSettings,            \* SpecThreshold: mode, threshold and autoThreshold of settings
  thrInFlight,            \* SpecThreshold: calculateAutoThreshold requests not yet answered
  thrResponses,           \* SpecThreshold: autoThreshold responses not yet handled
  thrJob,                 \* SpecThreshold: <<the process message submitted last>>
  thrUploads              \* SpecThreshold: images uploaded so far

protocolVars == <<isCancelled, sent, inbox, timers, outbox, cancelSeen>>

selVars == <<selInput, selFill, selRegion, selLifo>>

appVars == <<appImage, appSettings, committedMagicRegions, lastMagicToleranceRef,
             magicInFlight, lastJob, atSubmit, uuid, selections,
             removals>>

pixVars == <<pixJob, pixMask, pixBefore, pixDone>>

rleVars == <<rleIn, rleEncoded, rleDecoded, rleMerged>>

autoVars == <<autoIn, autoOut>>

hookVars == <<hookCaller, hookIsProcessing, hookToWorker, hookFromWorker, hookCompleted, hookCalls>>

overlapVars == <<isProcessing, processedImageData, handled>>

thresholdVars == <<thrImage, thrSettings, thrInFlight, thrResponses, thrJob, thrUploads>>

vars == <<protocolVars, selVars, appVars, pixVars, rleVars, autoVars, hookVars, overlapVars, thresholdVars>>

\* What the protocol specification leaves alone.
nonProtocolVars == <<selVars, appVars, pixVars, rleVars, autoVars, hookVars, overlapVars, thresholdVars>>

\* What the flood-fill specification leaves alone.
nonSelVars == <<protocolVars, appVars, pixVars, rleVars, autoVars, hookVars, overlapVars, thresholdVars>>

\* What the App specification leaves alone.
nonAppVars == <<protocolVars, selVars, pixVars, rleVars, autoVars, hookVars, overlapVars, thresholdVars>>

\* What the pixel specification leaves alone.
nonPixVars == <<protocolVars, selVars, appVars, rleVars, autoVars, hookVars, overlapVars, thresholdVars>>

\* What the RLE specification leaves alone.
nonRleVars == <<protocolVars, selVars, appVars, pixVars, autoVars, hookVars, overlapVars, thresholdVars>>

\* What the auto-threshold specification leaves alone.
nonAutoVars == <<protocolVars, selVars, appVars, pixVars, rleVars, hookVars, overlapVars, thresholdVars>>

\* What the hook specification leaves alone.
nonHookVars == <<protocolVars, selVars, appVars, pixVars, rleVars, autoVars, overlapVars, thresholdVars>>

\* What the overlap specification, which runs the worker of the protocol
\* specification, leaves alone.
nonOverlapVars == <<selVars, appVars, pixVars, rleVars, autoVars, hookVars, thresholdVars>>

\* What the threshold specification leaves alone.
nonThresholdVars == <<protocolVars, selVars, appVars, pixVars, rleVars, autoVars, hookVars, overlapVars>>

ProtocolIdle ==
  /\ isCancelled = FALSE
  /\ sent = <<>>
  /\ inbox = <<>>
  /\ timers = <<>>
  /\ outbox = <<>>
  /\ cancelSeen = {}

SelIdle ==
  /\ selInput = <<>>
  /\ selFill = <<>>
  /\ selRegion = <<>>
  /\ selLifo = TRUE

PixIdle ==
  /\ pixJob = <<>>
  /\ pixMask = <<>>
  /\ pixBefore = <<>>
  /\ pixDone = <<>>

RleIdle ==
  /\ rleIn = [a |-> <<>>, b |-> <<>>]
  /\ rleEncoded = <<>>
  /\ rleDecoded = <<>>
  /\ rleMerged = <<>>

AutoIdle ==
  /\ autoIn = <<>>
  /\ autoOut = <<>>

HookIdle ==
  /\ hookCaller = <<>>
  /\ hookIsProcessing = FALSE
  /\ hookToWorker = <<>>
  /\ hookFromWorker = <<>>
  /\ hookCompleted = <<>>
  /\ hookCalls = 0

OverlapIdle ==
  /\ isProcessing = FALSE
  /\ processedImageData = <<>>
  /\ handled = 0

ThresholdIdle ==
  /\ thrImage = <<>>
  /\ thrSettings = [mode |-> "auto", threshold |-> [num |-> 128, den |-> 1],
                    autoThreshold |-> <<>>]
  /\ thrInFlight = <<>>
  /\ thrResponses = <<>>
  /\ thrJob = <<>>
  /\ thrUploads = 0

\* <<>> is null and <<v>> a value.
DEFAULT_MAGIC_SELECTION_STATE ==
  [isActive |-> FALSE, tolerance |-> 32, previewRegion |-> <<>>,
   appliedRegions |-> <<>>, lastClickCoords |-> <<>>]

DEFAULT_PROCESSING_SETTINGS ==
  [mode |-> "auto", selectedColors |-> <<>>,
   magicSelection |-> DEFAULT_MAGIC_SELECTION_STATE]

AppIdle ==
  /\ appImage = <<>>
  /\ appSettings = DEFAULT_PROCESSING_SETTINGS
  /\ committedMagicRegions = <<>>
  /\ lastMagicToleranceRef = <<>>
  /\ magicInFlight = <<>>
  /\ lastJob = <<>>
  /\ atSubmit = <<>>
  /\ uuid = 1
  /\ selections = 0
  /\ removals = 0

(***************************************************************************)
(* Images of the protocol specification.  The control flow of processImage *)
(* (chunks, yields, progress, cancellation) reads only width and height;   *)
(* the pixel content of the buffer is modelled separately.                 *)
(***************************************************************************)
JobImages ==
  { [width |-> 1,    height |-> 1],      \* a single short chunk
    [width |-> 500,  height |-> 500],    \* exactly one full chunk
    [width |-> 500,  height |-> 501],    \* one full chunk and a short one
    [width |-> 1000, height |-> 600] }   \* three chunks

UnknownKinds == {"resize"}

\* Pixel images: 3x2, 2x2 and 3x3.
ImageA == [width |-> 3, height |-> 2,
           data |-> <<Black, White, Cream, White, White, Black>>]
ImageB == [width |-> 2, height |-> 2,
           data |-> <<White, Grey, Cream, Black>>]
ImageC == [width |-> 3, height |-> 3,
           data |-> <<White, Cream, Grey, White, Black, White, Cream, White, White>>]

\* A 4 x 4 white image with one black pixel at (2, 2).
ImageD == [width |-> 4, height |-> 4,
           data |-> [p \in 1..16 |-> IF p = 2 * 4 + 2 + 1 THEN Black ELSE White]]

\* Seeds of the magicSelect requests of the protocol specification: one
\* inside ImageA, and one beyond each of three of its borders.
ProtocolSeeds == { <<0, 1>>, <<0 - 1, 0>>, <<3, 0>>, <<1, 2>> }

ProtocolTolerances == {10}

ProcessRequests ==
  { [type |-> "process", imageData |-> img, settings |-> [edgeMode |-> e]] :
      img \in JobImages, e \in EdgeModes }

CancelRequest == [type |-> "cancel"]

\* The message performMagicSelect builds.
MagicSelectRequest(img, x, y, tolerance) ==
  [type |-> "magicSelect", imageData |-> img,
   magicSelectParams |-> [x |-> x, y |-> y, tolerance |-> tolerance,
                          width |-> img.width, height |-> img.height]]

MagicSelectRequests ==
  { MagicSelectRequest(ImageA, s[1], s[2], t) :
      s \in ProtocolSeeds, t \in ProtocolTolerances }

UnknownRequests == { [type |-> k] : k \in UnknownKinds }

(***************************************************************************)
(* Responses, with the fields the worker posts.                            *)
(***************************************************************************)
ProgressResponse(p) == [type |-> "progress", progress |-> p]
CompleteResponse(img) == [type |-> "complete", imageData |-> img]
CancelledResponse == [type |-> "cancelled"]
ErrorResponse(e) == [type |-> "error", error |-> e]
MagicSelectResponse(region) == [type |-> "magicSelectResult", magicRegion |-> region]

TerminalTypes == {"complete", "cancelled", "error"}

(***************************************************************************)
(* processImage, as the sequence of its synchronous segments.  A segment   *)
(* runs from the loop test of Phase 1 to the next `await` (or to the       *)
(* return).  Its result is the responses it posts and, when it suspends,   *)
(* the continuation that the timer resumes.                                *)
(***************************************************************************)
useAdvancedEdge(settings) ==
  settings.edgeMode \in {"decontaminate", "smooth", "refine"}

totalPixels(img) == img.width * img.height

\* AfterChunks without the return that follows the first cancelled response.
AfterChunks_NoReturn(img, settings, cancelled) ==
  IF useAdvancedEdge(settings)
  THEN (IF cancelled THEN <<CancelledResponse>> ELSE <<>>) \o
       <<ProgressResponse(60), ProgressResponse(80), ProgressResponse(95),
         CompleteResponse(img)>>
  ELSE <<CompleteResponse(img)>>

\* Lines 604-689: after the chunk loop; there is no yield in here.
AfterChunks(img, settings, cancelled) ==
  IF useAdvancedEdge(settings)
  THEN IF cancelled
       THEN <<CancelledResponse>>
       ELSE <<ProgressResponse(60)>> \o
            ( IF cancelled
              THEN <<CancelledResponse>>
              ELSE <<ProgressResponse(80), ProgressResponse(95),
                     CompleteResponse(img)>> )
  ELSE <<CompleteResponse(img)>>

\* ChunkSegment without the throttle: every chunk posts its progress.
ChunkSegment_Unthrottled(req, img, settings, chunkStart, lastProgressUpdate, cancelled) ==
  IF chunkStart < totalPixels(img)
  THEN IF cancelled
       THEN [posts |-> <<CancelledResponse>>, cont |-> <<>>]
       ELSE LET chunkEnd == Min(chunkStart + chunkSize, totalPixels(img))
                progress ==
                  IF useAdvancedEdge(settings)
                  THEN RoundDiv(chunkEnd * 50, totalPixels(img))
                  ELSE RoundDiv(chunkEnd * 100, totalPixels(img))
            IN [posts |-> <<ProgressResponse(progress)>>,
                cont  |-> << [req |-> req,
                              chunkStart |-> chunkStart,
                              lastProgressUpdate |-> progress] >>]
  ELSE [posts |-> AfterChunks(img, settings, cancelled), cont |-> <<>>]

\* Lines 531-602: one pass of the Phase 1 loop, from its test.
ChunkSegment(req, img, settings, chunkStart, lastProgressUpdate, cancelled) ==
  IF chunkStart < totalPixels(img)
  THEN IF cancelled
       THEN [posts |-> <<CancelledResponse>>, cont |-> <<>>]
       ELSE LET chunkEnd == Min(chunkStart + chunkSize, totalPixels(img))
                progress ==
                  IF useAdvancedEdge(settings)
                  THEN RoundDiv(chunkEnd * 50, totalPixels(img))
                  ELSE RoundDiv(chunkEnd * 100, totalPixels(img))
                emit == progress >= lastProgressUpdate + PROGRESS_UPDATE_INTERVAL
            IN [posts |-> IF emit THEN <<ProgressResponse(progress)>> ELSE <<>>,
                cont  |-> << [req |-> req,
                              chunkStart |-> chunkStart,
                              lastProgressUpdate |->
                                IF emit THEN progress ELSE lastProgressUpdate] >>]
  ELSE [posts |-> AfterChunks(img, settings, cancelled), cont |-> <<>>]

Tag(posts, req) == [i \in 1..Len(posts) |-> [msg |-> posts[i], to |-> req]]

(***************************************************************************)
(* The caller.  It serialises process jobs: a process request is posted    *)
(* only when no process job is queued or running.                          *)
(***************************************************************************)
Running == { timers[i].req : i \in 1..Len(timers) }

JobInFlight ==
  \/ timers # <<>>
  \/ \E i \in 1..Len(inbox) : sent[inbox[i]].type = "process"

Post(m) ==
  /\ Len(sent) < MaxRequests
  /\ sent' = Append(sent, m)
  /\ inbox' = Append(inbox, Len(sent) + 1)
  /\ UNCHANGED <<isCancelled, timers, outbox, cancelSeen>>
  /\ UNCHANGED nonProtocolVars

SendProcess == \E m \in ProcessRequests : ~JobInFlight /\ Post(m)

SendCancel == Post(CancelRequest)

SendUnknown == \E m \in UnknownRequests : Post(m)

SendMagicSelect == \E m \in MagicSelectRequests : Post(m)

(***************************************************************************)
(* self.onmessage, one case per action.                                    *)
(***************************************************************************)
\* OnProcess without `isCancelled = false`.
OnProcess_NoReset ==
  /\ inbox # <<>>
  /\ sent[Head(inbox)].type = "process"
  /\ LET req == Head(inbox)
         m == sent[req]
         seg == ChunkSegment(req, m.imageData, m.settings, 0, 0, isCancelled)
     IN /\ isCancelled' = isCancelled
        /\ outbox' = outbox \o Tag(seg.posts, req)
        /\ timers' = timers \o seg.cont
  /\ inbox' = Tail(inbox)
  /\ UNCHANGED <<sent, cancelSeen>>
  /\ UNCHANGED nonProtocolVars

\* case 'process': isCancelled = false; await processImage(...)
OnProcess ==
  /\ inbox # <<>>
  /\ sent[Head(inbox)].type = "process"
  /\ LET req == Head(inbox)
         m == sent[req]
         seg == ChunkSegment(req, m.imageData, m.settings, 0, 0, FALSE)
     IN /\ isCancelled' = FALSE
        /\ outbox' = outbox \o Tag(seg.posts, req)
        /\ timers' = timers \o seg.cont
  /\ inbox' = Tail(inbox)
  /\ UNCHANGED <<sent, cancelSeen>>
  /\ UNCHANGED nonProtocolVars

\* case 'cancel': isCancelled = true
OnCancel ==
  /\ inbox # <<>>
  /\ sent[Head(inbox)].type = "cancel"
  /\ isCancelled' = TRUE
  /\ cancelSeen' = cancelSeen \cup Running
  /\ inbox' = Tail(inbox)
  /\ UNCHANGED <<sent, timers, outbox>>
  /\ UNCHANGED nonProtocolVars

\* case 'magicSelect': nothing in magicSelect throws, so the catch clause is
\* never entered and the result is posted.
OnMagicSelect ==
  /\ inbox # <<>>
  /\ sent[Head(inbox)].type = "magicSelect"
  /\ LET req == Head(inbox)
         m == sent[req]
         magicRegion == magicSelect(m.imageData, m.magicSelectParams.x,
                                    m.magicSelectParams.y,
                                    m.magicSelectParams.tolerance, req)
     IN outbox' = Append(outbox, [msg |-> MagicSelectResponse(magicRegion), to |-> req])
  /\ inbox' = Tail(inbox)
  /\ UNCHANGED <<isCancelled, sent, timers, cancelSeen>>
  /\ UNCHANGED nonProtocolVars

\* OnUnknown posting the catch clause's generic message.
OnUnknown_Generic ==
  /\ inbox # <<>>
  /\ sent[Head(inbox)].type \notin
       {"process", "calculateAutoThreshold", "magicSelect", "cancel"}
  /\ outbox' = Append(outbox,
       [msg |-> ErrorResponse(<<"Unknown error occurred">>), to |-> Head(inbox)])
  /\ inbox' = Tail(inbox)
  /\ UNCHANGED <<isCancelled, sent, timers, cancelSeen>>
  /\ UNCHANGED nonProtocolVars

\* default: postMessage({type: 'error', error: `Unknown message type: ...`})
OnUnknown ==
  /\ inbox # <<>>
  /\ sent[Head(inbox)].type \notin
       {"process", "calculateAutoThreshold", "magicSelect", "cancel"}
  /\ outbox' = Append(outbox,
       [msg |-> ErrorResponse(<<"Unknown message type: ", sent[Head(inbox)].type>>),
        to |-> Head(inbox)])
  /\ inbox' = Tail(inbox)
  /\ UNCHANGED <<isCancelled, sent, timers, cancelSeen>>
  /\ UNCHANGED nonProtocolVars

\* The timer of line 601 fires: processImage resumes at the loop increment.
OnTimer ==
  /\ timers # <<>>
  /\ LET k == Head(timers)
         m == sent[k.req]
         seg == ChunkSegment(k.req, m.imageData, m.settings,
                             k.chunkStart + chunkSize, k.lastProgressUpdate,
                             isCancelled)
     IN /\ outbox' = outbox \o Tag(seg.posts, k.req)
        /\ timers' = Tail(timers) \o seg.cont
  /\ UNCHANGED <<isCancelled, sent, inbox, cancelSeen>>
  /\ UNCHANGED nonProtocolVars

Init ==
  /\ ProtocolIdle
  /\ SelIdle
  /\ AppIdle
  /\ PixIdle
  /\ RleIdle
  /\ AutoIdle
  /\ HookIdle
  /\ OverlapIdle
  /\ ThresholdIdle

Next ==
  \/ SendProcess
  \/ SendCancel
  \/ SendUnknown
  \/ SendMagicSelect
  \/ OnProcess
  \/ OnCancel
  \/ OnMagicSelect
  \/ OnUnknown
  \/ OnTimer

Spec == Init /\ [][Next]_vars

(***************************************************************************)
(* SpecSel: one call of magicSelect.  The call's arguments are drawn from  *)
(* the model images, every seed from one pixel outside the image to one    *)
(* pixel outside on the other side, and the tolerances below.  SelTake is  *)
(* one pass of the while loop on any pending entry of the stack; the code  *)
(* takes the last one.                                                     *)
(***************************************************************************)
SelImages == {ImageA, ImageB, ImageC}

SelTolerances == {0, 6, 10}

SelInputs ==
  { [imageData |-> img, x |-> x, y |-> y, tolerance |-> t] :
      img \in SelImages, x \in (0 - 1)..3, y \in (0 - 1)..3, t \in SelTolerances }
  \cup { [imageData |-> ImageD, x |-> 0, y |-> 0, tolerance |-> 10] }

selSeedColor ==
  PixelAt(selInput[1].imageData,
          selInput[1].y * selInput[1].imageData.width + selInput[1].x)

InitSel ==
  /\ ProtocolIdle
  /\ AppIdle
  /\ PixIdle
  /\ RleIdle
  /\ AutoIdle
  /\ HookIdle
  /\ OverlapIdle
  /\ ThresholdIdle
  /\ \E i \in SelInputs :
       /\ i.x <= i.imageData.width
       /\ i.y <= i.imageData.height
       /\ selInput = <<i>>
       /\ selFill = <<FillInit(i.imageData, i.x, i.y)>>
  /\ selRegion = <<>>
  /\ selLifo = TRUE

SelTake ==
  /\ selRegion = <<>>
  /\ \E k \in 1..Len(selFill[1].stack) :
       /\ selFill' = <<FillStepAt(selInput[1].imageData, selSeedColor,
                                  selInput[1].tolerance, selFill[1], k)>>
       /\ selLifo' = (selLifo /\ k = Len(selFill[1].stack))
  /\ UNCHANGED <<selInput, selRegion>>
  /\ UNCHANGED nonSelVars

SelReturn ==
  /\ selRegion = <<>>
  /\ selFill[1].stack = <<>>
  /\ selRegion' = <<BuildRegion(selInput[1].imageData, selSeedColor, selFill[1], 0)>>
  /\ UNCHANGED <<selInput, selFill, selLifo>>
  /\ UNCHANGED nonSelVars

NextSel ==
  \/ SelTake
  \/ SelReturn

SpecSel == InitSel /\ [][NextSel]_vars

\* magicSelect is straight-line code inside one call of self.onmessage: the
\* while loop takes its next pass, and the function returns, without
\* waiting for anything.
SpecSelFair == SpecSel /\ WF_vars(NextSel)

(***************************************************************************)
(* Region consolidation (contexts/AppContext.tsx) and the RLE helpers of   *)
(* lib/maskUtils.ts it calls.  encodeMaskToRLE and decodeMaskFromRLE of    *)
(* maskUtils.ts are line for line those of the worker.                     *)
(***************************************************************************)
\* const MAX_MAGIC_REGIONS = 50.
MAX_MAGIC_REGIONS == 50

\* mergeRLEMasks that keeps the first mask only.
mergeRLEMasks_First(rle1, rle2, maskSize) ==
  LET mask1 == decodeMaskFromRLE(rle1, maskSize)
  IN encodeMaskToRLE([i \in 1..maskSize |-> IF mask1[i] = 1 THEN 1 ELSE 0])

\* mergeRLEMasks that appends the runs of the second mask to those of the
\* first.
mergeRLEMasks_Concat(rle1, rle2, maskSize) ==
  IF rle1 = rle2 THEN rle1 ELSE rle1 \o rle2

\* mergeRLEMasks: decode both, OR, encode.
mergeRLEMasks(rle1, rle2, maskSize) ==
  LET mask1 == decodeMaskFromRLE(rle1, maskSize)
      mask2 == decodeMaskFromRLE(rle2, maskSize)
  IN encodeMaskToRLE([i \in 1..maskSize |->
                        IF mask1[i] = 1 \/ mask2[i] = 1 THEN 1 ELSE 0])

RECURSIVE SumLengths(_, _)
SumLengths(rle, k) ==
  IF 2 * k > Len(rle) THEN 0 ELSE rle[2 * k] + SumLengths(rle, k + 1)

\* countPixelsInRLE: the sum of the lengths.
countPixelsInRLE(rle) == SumLengths(rle, 1)

\* Lines 189-198: the pieces of one run.  After the first piece the code
\* sets currentLocalX = 0 and then currentStart = currentStart -
\* currentLocalX + mergedWidth, that is currentStart + mergedWidth.
RECURSIVE WrapRuns(_, _, _, _, _)
WrapRuns(currentStart, remaining, currentLocalX, regionWidth, mergedWidth) ==
  IF remaining <= 0 THEN <<>>
  ELSE LET spaceInRow == regionWidth - currentLocalX
           runLength == Min(remaining, spaceInRow)
       IN <<currentStart, runLength>> \o
          WrapRuns(currentStart + mergedWidth, remaining - runLength, 0,
                   regionWidth, mergedWidth)

\* Lines 170-199: offsetRuns of one region, from its run i on.
RECURSIVE OffsetRuns(_, _, _, _, _)
OffsetRuns(region, minX, minY, mergedWidth, i) ==
  IF 2 * i > Len(region.maskRLE) THEN <<>>
  ELSE LET offsetX == region.bounds.x - minX
           offsetY == region.bounds.y - minY
           start == region.maskRLE[2 * i - 1]
           length == region.maskRLE[2 * i]
           localY == start \div region.bounds.width
           localX == start % region.bounds.width
           mergedStart == (localY + offsetY) * mergedWidth + (localX + offsetX)
       IN WrapRuns(mergedStart, length, localX, region.bounds.width, mergedWidth)
          \o OffsetRuns(region, minX, minY, mergedWidth, i + 1)

SetMin(S) == CHOOSE a \in S : \A b \in S : a <= b
SetMax(S) == CHOOSE a \in S : \A b \in S : a >= b

\* Lines 168-210: the fold over regionsToMerge.
RECURSIVE MergeMasks(_, _, _, _, _, _)
MergeMasks(regionsToMerge, i, mergedRLE, minX, minY, mergedWidth) ==
  IF i > Len(regionsToMerge) THEN mergedRLE
  ELSE LET next ==
         [rle |-> mergeRLEMasks(mergedRLE.rle,
                    OffsetRuns(regionsToMerge[i], minX, minY, mergedWidth, 1),
                    mergedRLE.size),
          size |-> mergedRLE.size,
          totalR |-> mergedRLE.totalR +
                     regionsToMerge[i].averageColor.r * regionsToMerge[i].pixelCount,
          totalG |-> mergedRLE.totalG +
                     regionsToMerge[i].averageColor.g * regionsToMerge[i].pixelCount,
          totalB |-> mergedRLE.totalB +
                     regionsToMerge[i].averageColor.b * regionsToMerge[i].pixelCount,
          totalPixels |-> mergedRLE.totalPixels + regionsToMerge[i].pixelCount,
          isNaN |-> mergedRLE.isNaN
                    \/ regionsToMerge[i].averageColor.r = undefined]
       \* The test makes TLC compute this pass before it enters the next.
       IN IF next.size = mergedRLE.size
          THEN MergeMasks(regionsToMerge, i + 1, next, minX, minY, mergedWidth)
          ELSE next

\* function mergeRegionsOfSameMode; <<>> stands for null, id for
\* crypto.randomUUID().
mergeRegionsOfSameMode(regions, mode, id) ==
  LET regionsToMerge == SelectSeq(regions, LAMBDA r : r.mode = mode)
      all == { regionsToMerge[i] : i \in 1..Len(regionsToMerge) }
      minX == SetMin({ r.bounds.x : r \in all })
      minY == SetMin({ r.bounds.y : r \in all })
      maxX == SetMax({ r.bounds.x + r.bounds.width : r \in all })
      maxY == SetMax({ r.bounds.y + r.bounds.height : r \in all })
      mergedWidth == maxX - minX
      mergedHeight == maxY - minY
      m == MergeMasks(regionsToMerge, 1,
             [rle |-> <<>>, size |-> mergedWidth * mergedHeight,
              totalR |-> 0, totalG |-> 0, totalB |-> 0, totalPixels |-> 0,
              isNaN |-> FALSE],
             minX, minY, mergedWidth)
      channel(total) == IF m.totalPixels > 0
                        THEN IF m.isNaN THEN undefined
                             ELSE RoundDiv(total, m.totalPixels)
                        ELSE 128
  IN IF Len(regionsToMerge) = 0 THEN <<>>
     ELSE IF Len(regionsToMerge) = 1 THEN <<regionsToMerge[1]>>
     ELSE << [ id |-> id,
               maskRLE |-> m.rle,
               bounds |-> [x |-> minX, y |-> minY,
                           width |-> mergedWidth, height |-> mergedHeight],
               pixelCount |-> countPixelsInRLE(m.rle),
               averageColor |-> [r |-> channel(m.totalR), g |-> channel(m.totalG),
                                 b |-> channel(m.totalB)],
               mode |-> mode ] >>

\* function consolidateRegions: the keep region, then the remove region.
consolidateRegions(regions, keepId, removeId) ==
  mergeRegionsOfSameMode(regions, "keep", keepId)
    \o mergeRegionsOfSameMode(regions, "remove", removeId)

(***************************************************************************)
(* appReducer, the cases on settings.magicSelection.  <<>> is null and     *)
(* <<v>> a value.                                                          *)
(***************************************************************************)
SET_MAGIC_ACTIVE(ms, payload) ==
  [ms EXCEPT !.isActive = payload,
             !.previewRegion = IF payload THEN @ ELSE <<>>]

SET_MAGIC_TOLERANCE(ms, payload) == [ms EXCEPT !.tolerance = payload]

SET_MAGIC_PREVIEW(ms, payload) ==
  [ms EXCEPT !.previewRegion = payload,
             !.lastClickCoords = IF payload = <<>> THEN <<>> ELSE @]

SET_MAGIC_CLICK_COORDS(ms, payload) == [ms EXCEPT !.lastClickCoords = payload]

\* newRegions without the consolidation of lines 456-458.
AppliedAfter_NoLimit(ms, payload, keepId, removeId) == Append(ms.appliedRegions, payload)

\* newRegions of case 'APPLY_MAGIC_REGION'.
AppliedAfter(ms, payload, keepId, removeId) ==
  LET newRegions == Append(ms.appliedRegions, payload)
  IN IF Len(newRegions) > MAX_MAGIC_REGIONS
     THEN consolidateRegions(newRegions, keepId, removeId)
     ELSE newRegions

APPLY_MAGIC_REGION(ms, payload, keepId, removeId) ==
  [ms EXCEPT !.appliedRegions = AppliedAfter(ms, payload, keepId, removeId),
             !.previewRegion = <<>>,
             !.lastClickCoords = <<>>]

REMOVE_MAGIC_REGION(ms, payload) ==
  [ms EXCEPT !.appliedRegions = SelectSeq(@, LAMBDA r : r.id # payload)]

CLEAR_MAGIC_REGIONS(ms) ==
  [ms EXCEPT !.appliedRegions = <<>>, !.previewRegion = <<>>,
             !.lastClickCoords = <<>>]

(***************************************************************************)
(* SpecApp: the App component (App.tsx) over the reducer.  A handler and   *)
(* the effects its state change triggers are one step.  The worker         *)
(* answers magicSelect requests in the order they were posted.             *)
(* The autoThreshold response is not modelled: the hook reads its          *)
(* autoThreshold field, the worker fills threshold, and onAutoThreshold is *)
(* never called.  The mode stays 'auto': the jobs of this specification    *)
(* are those the upload of an image and Apply All submit.                  *)
(***************************************************************************)
\* magicSelect requests the app posts in one behaviour.
MaxSelections == 2

\* Regions removed with removeMagicRegion in one behaviour.
MaxRemovals == 1

AppImages == {ImageA}

AppTolerances == {0, 32}

\* The pixels the model clicks.
AppSeeds == { <<1, 0>>, <<2, 0>> }

\* The process effect with the pending regions in place of the committed
\* ones.
ProcessEffect_Pending(image, settings, committed) ==
  IF image = <<>> THEN <<>>
  ELSE IF settings.mode = "colorPicker" /\ Len(settings.selectedColors) = 0
       THEN <<>>
       ELSE << [type |-> "process", imageData |-> image[1],
                settings |->
                  [mode |-> settings.mode,
                   selectedColors |-> settings.selectedColors,
                   magicSelection |->
                     [appliedRegions |->
                        settings.magicSelection.appliedRegions]]] >>

\* Lines 134-164 of App.tsx: the message the process effect posts, <<>> when
\* it returns early.  Of settings.magicSelection the worker reads
\* appliedRegions only; the fields it does not read are left out.
ProcessEffect(image, settings, committed) ==
  IF image = <<>> THEN <<>>
  ELSE IF settings.mode = "colorPicker" /\ Len(settings.selectedColors) = 0
       THEN <<>>
       ELSE << [type |-> "process", imageData |-> image[1],
                settings |->
                  [mode |-> settings.mode,
                   selectedColors |-> settings.selectedColors,
                   magicSelection |-> [appliedRegions |-> committed]]] >>

\* Lines 315-331: the tolerance effect; the new ref and what it posts.
ToleranceEffect(image, ms, ref) ==
  IF image = <<>> \/ ms.lastClickCoords = <<>> \/ ms.previewRegion = <<>>
  THEN [ref |-> ref, posts |-> <<>>]
  ELSE IF ref = <<ms.tolerance>>
       THEN [ref |-> ref, posts |-> <<>>]
       ELSE [ref |-> <<ms.tolerance>>,
             posts |-> << MagicSelectRequest(image[1], ms.lastClickCoords[1].x,
                                             ms.lastClickCoords[1].y,
                                             ms.tolerance) >>]

\* The render that follows a handler: the new state, then the effects whose
\* dependencies changed.
Render(image2, settings2, committed2, ref2, queue2, own, runProcess, runTolerance) ==
  LET te == IF runTolerance
            THEN ToleranceEffect(image2, settings2.magicSelection, ref2)
            ELSE [ref |-> ref2, posts |-> <<>>]
      job == IF runProcess THEN ProcessEffect(image2, settings2, committed2)
             ELSE <<>>
      posted == own + Len(te.posts)
  IN /\ selections + posted <= MaxSelections
     /\ appImage' = image2
     /\ appSettings' = settings2
     /\ committedMagicRegions' = committed2
     /\ lastMagicToleranceRef' = te.ref
     /\ magicInFlight' = queue2 \o te.posts
     /\ selections' = selections + posted
     /\ IF job # <<>>
        THEN /\ lastJob' = job
             /\ atSubmit' = <<[applied |-> settings2.magicSelection.appliedRegions,
                               committed |-> committed2]>>
        ELSE UNCHANGED <<lastJob, atSubmit>>

\* The app after n selections at pixel seed of ImageA with tolerance 0 were
\* each committed with mode m: upload, tool on, tolerance 0, then n times
\* click, result, apply.
AfterCommits(n, seed, m) ==
  /\ appImage = <<ImageA>>
  /\ appSettings =
       [DEFAULT_PROCESSING_SETTINGS EXCEPT
          !.magicSelection.isActive = TRUE,
          !.magicSelection.tolerance = 0,
          !.magicSelection.appliedRegions =
             [i \in 1..n |->
                [magicSelect(ImageA, seed[1], seed[2], 0, i) EXCEPT !.mode = m]]]
  /\ committedMagicRegions = <<>>
  /\ lastMagicToleranceRef = <<>>
  /\ magicInFlight = <<>>
  /\ lastJob = ProcessEffect(<<ImageA>>, DEFAULT_PROCESSING_SETTINGS, <<>>)
  /\ atSubmit = <<[applied |-> <<>>, committed |-> <<>>]>>
  /\ uuid = n + 1
  /\ selections = 0
  /\ removals = 0

PrefillSeeds == { <<2, 0>> }

InitApp ==
  /\ ProtocolIdle
  /\ SelIdle
  /\ AppIdle
  /\ PixIdle
  /\ RleIdle
  /\ AutoIdle
  /\ HookIdle
  /\ OverlapIdle
  /\ ThresholdIdle

\* The app with a list of regions one short of the limit.
InitAppFilled ==
  /\ ProtocolIdle
  /\ SelIdle
  /\ PixIdle
  /\ RleIdle
  /\ AutoIdle
  /\ HookIdle
  /\ OverlapIdle
  /\ ThresholdIdle
  /\ \E seed \in PrefillSeeds :
       AfterCommits(MAX_MAGIC_REGIONS - 1, seed, "remove")

\* handleImageUpload, img.onload: setImage.
AppUpload ==
  /\ \E img \in AppImages :
       Render(<<img>>, appSettings, committedMagicRegions, lastMagicToleranceRef,
              magicInFlight, 0, TRUE, TRUE)
  /\ UNCHANGED <<uuid, removals>>
  /\ UNCHANGED nonAppVars

\* handleSettingsChange with a magicTolerance: setMagicTolerance.
AppSetTolerance ==
  /\ \E t \in AppTolerances :
       /\ t # appSettings.magicSelection.tolerance
       /\ Render(appImage,
                 [appSettings EXCEPT
                    !.magicSelection = SET_MAGIC_TOLERANCE(@, t)],
                 committedMagicRegions, lastMagicToleranceRef, magicInFlight, 0,
                 FALSE, TRUE)
  /\ UNCHANGED <<uuid, removals>>
  /\ UNCHANGED nonAppVars

\* onMagicActiveChange: setMagicActive.
AppSetMagicActive ==
  /\ \E active \in BOOLEAN :
       LET ms == SET_MAGIC_ACTIVE(appSettings.magicSelection, active)
       IN /\ ms # appSettings.magicSelection
          /\ Render(appImage, [appSettings EXCEPT !.magicSelection = ms],
                    committedMagicRegions, lastMagicToleranceRef, magicInFlight, 0,
                    FALSE, ms.previewRegion # appSettings.magicSelection.previewRegion)
  /\ UNCHANGED <<uuid, removals>>
  /\ UNCHANGED nonAppVars

\* handleMagicSelect, called by the canvas click handler with a pixel of the
\* image while the magic tool is active.
AppMagicSelect ==
  /\ appImage # <<>>
  /\ appSettings.magicSelection.isActive
  /\ \E x \in 0..(appImage[1].width - 1) : \E y \in 0..(appImage[1].height - 1) :
       /\ <<x, y>> \in AppSeeds
       /\ Render(appImage,
                 [appSettings EXCEPT
                    !.magicSelection = SET_MAGIC_CLICK_COORDS(@, <<[x |-> x, y |-> y]>>)],
                 committedMagicRegions,
                 <<appSettings.magicSelection.tolerance>>,
                 Append(magicInFlight,
                        MagicSelectRequest(appImage[1], x, y,
                                           appSettings.magicSelection.tolerance)),
                 1, FALSE, TRUE)
  /\ UNCHANGED <<uuid, removals>>
  /\ UNCHANGED nonAppVars

\* The worker answers the oldest magicSelect request; the hook calls
\* onMagicSelectResult: setMagicPreview(region).
AppMagicResult ==
  /\ magicInFlight # <<>>
  /\ LET p == Head(magicInFlight).magicSelectParams
         region == magicSelect(Head(magicInFlight).imageData, p.x, p.y,
                               p.tolerance, uuid)
     IN Render(appImage,
               [appSettings EXCEPT
                  !.magicSelection = SET_MAGIC_PREVIEW(@, <<region>>)],
               committedMagicRegions, lastMagicToleranceRef, Tail(magicInFlight), 0,
               FALSE, TRUE)
  /\ uuid' = uuid + 1
  /\ UNCHANGED removals
  /\ UNCHANGED nonAppVars

\* handleMagicApply(mode).
AppMagicApply ==
  /\ appSettings.magicSelection.previewRegion # <<>>
  /\ \E mode \in {"keep", "remove"} :
       Render(appImage,
              [appSettings EXCEPT
                 !.magicSelection =
                    APPLY_MAGIC_REGION(@,
                      [appSettings.magicSelection.previewRegion[1]
                         EXCEPT !.mode = mode],
                                       uuid, uuid + 1)],
              committedMagicRegions, <<>>, magicInFlight, 0, FALSE, TRUE)
  /\ uuid' = IF Len(appSettings.magicSelection.appliedRegions) + 1 > MAX_MAGIC_REGIONS
             THEN uuid + 2 ELSE uuid
  /\ UNCHANGED removals
  /\ UNCHANGED nonAppVars

\* handleMagicCancel.
AppMagicCancel ==
  /\ \/ appSettings.magicSelection.previewRegion # <<>>
     \/ appSettings.magicSelection.lastClickCoords # <<>>
     \/ lastMagicToleranceRef # <<>>
  /\ Render(appImage,
            [appSettings EXCEPT !.magicSelection = SET_MAGIC_PREVIEW(@, <<>>)],
            committedMagicRegions, <<>>, magicInFlight, 0, FALSE, TRUE)
  /\ UNCHANGED <<uuid, removals>>
  /\ UNCHANGED nonAppVars

\* handleMagicApplyAll.
AppMagicApplyAll ==
  /\ Len(appSettings.magicSelection.appliedRegions) > 0
  /\ Render(appImage, appSettings, appSettings.magicSelection.appliedRegions,
            lastMagicToleranceRef, magicInFlight, 0, TRUE, FALSE)
  /\ UNCHANGED <<uuid, removals>>
  /\ UNCHANGED nonAppVars

\* onMagicRegionRemove: removeMagicRegion(id), for the first or the last
\* region of the list.
AppRemoveRegion ==
  /\ removals < MaxRemovals
  /\ appSettings.magicSelection.appliedRegions # <<>>
  /\ \E i \in {1, Len(appSettings.magicSelection.appliedRegions)} :
       Render(appImage,
              [appSettings EXCEPT
                 !.magicSelection =
                    REMOVE_MAGIC_REGION(@, @.appliedRegions[i].id)],
              committedMagicRegions, lastMagicToleranceRef, magicInFlight, 0,
              FALSE, FALSE)
  /\ removals' = removals + 1
  /\ UNCHANGED uuid
  /\ UNCHANGED nonAppVars

\* onMagicClearAll: clearMagicRegions.
AppClearRegions ==
  /\ CLEAR_MAGIC_REGIONS(appSettings.magicSelection) # appSettings.magicSelection
  /\ Render(appImage,
            [appSettings EXCEPT !.magicSelection = CLEAR_MAGIC_REGIONS(@)],
            committedMagicRegions, lastMagicToleranceRef, magicInFlight, 0,
            FALSE, TRUE)
  /\ UNCHANGED <<uuid, removals>>
  /\ UNCHANGED nonAppVars

NextApp ==
  \/ AppUpload
  \/ AppSetTolerance
  \/ AppSetMagicActive
  \/ AppMagicSelect
  \/ AppMagicResult
  \/ AppMagicApply
  \/ AppMagicCancel
  \/ AppMagicApplyAll
  \/ AppRemoveRegion
  \/ AppClearRegions

SpecApp == InitApp /\ [][NextApp]_vars

SpecAppFilled == InitAppFilled /\ [][NextApp]_vars

(***************************************************************************)
(* processImage on the pixels of one job.  The buffer of a job is          *)
(* [width, height, data, alpha]: alpha[p + 1] is the byte data[(p << 2) +  *)
(* 3] of the pixel of row-major index p.  The jobs drawn have edgeMode     *)
(* hard, so that phases 2 to 4 are skipped and the alpha channel that the  *)
(* stamping loop finds is the one phase 1 leaves.                          *)
(***************************************************************************)
\* Applied regions carried by one job.
MaxPixRegions == 2

RECURSIVE SumRange(_, _, _)
\* The sum f[lo] + ... + f[hi] of an accumulation loop.
SumRange(f, lo, hi) ==
  IF lo > hi THEN 0
  ELSE IF lo = hi THEN f[lo]
  ELSE LET mid == (lo + hi) \div 2
       IN SumRange(f, lo, mid) + SumRange(f, mid + 1, hi)

\* function detectDominantColor: the four corner blocks, quantised to
\* multiples of 8; the Map keeps its entries in the order of first insertion
\* and `entry.count > maxCount` keeps the first entry of the greatest count.
detectDominantColor(img) ==
  LET width == img.width
      height == img.height
      sampleSize == Min(20, Min(width, height) \div 10)
      Corner(x0, y0) ==
        [k \in 1..(sampleSize * sampleSize) |->
           PixelAt(img, (y0 + (k - 1) \div sampleSize) * width
                        + x0 + ((k - 1) % sampleSize))]
      cornerSamples ==
        Corner(0, 0) \o Corner(width - sampleSize, 0)
        \o Corner(0, height - sampleSize)
        \o Corner(width - sampleSize, height - sampleSize)
      key(c) == <<(c.r \div 8) * 8, (c.g \div 8) * 8, (c.b \div 8) * 8>>
      entry(i) == { k \in 1..Len(cornerSamples) :
                      key(cornerSamples[k]) = key(cornerSamples[i]) }
      firsts == { i \in 1..Len(cornerSamples) : \A k \in entry(i) : i <= k }
      best == CHOOSE i \in firsts :
                \A k \in firsts :
                  \/ Cardinality(entry(i)) > Cardinality(entry(k))
                  \/ /\ Cardinality(entry(i)) = Cardinality(entry(k))
                     /\ i <= k
      count == Cardinality(entry(best))
      n == Len(cornerSamples)
      inBest(k) == key(cornerSamples[k]) = key(cornerSamples[best])
  IN IF n = 0 THEN [r |-> 255, g |-> 255, b |-> 255]
     ELSE [r |-> RoundDiv(SumRange([k \in 1..n |->
                                      IF inBest(k) THEN cornerSamples[k].r ELSE 0],
                                   1, n), count),
           g |-> RoundDiv(SumRange([k \in 1..n |->
                                      IF inBest(k) THEN cornerSamples[k].g ELSE 0],
                                   1, n), count),
           b |-> RoundDiv(SumRange([k \in 1..n |->
                                      IF inBest(k) THEN cornerSamples[k].b ELSE 0],
                                   1, n), count)]

\* thresholdSquared kept in one byte: the square wraps at 256.
thresholdSquared_Byte(settings) ==
  LET effectiveThreshold ==
        IF settings.mode = "auto"
        THEN (IF settings.autoThreshold = <<>> THEN 0
              ELSE settings.autoThreshold[1])
        ELSE settings.threshold
  IN (effectiveThreshold * effectiveThreshold) % 256

\* Lines 500-503: mode === 'auto' ? autoThreshold : threshold, squared.  A
\* null autoThreshold gives null * null, which is 0.
thresholdSquared(settings) ==
  LET effectiveThreshold ==
        IF settings.mode = "auto"
        THEN (IF settings.autoThreshold = <<>> THEN 0
              ELSE settings.autoThreshold[1])
        ELSE settings.threshold
  IN effectiveThreshold * effectiveThreshold

\* colorPickerMatch without the break: the last matching colour decides.
colorPickerMatch_Last(c, selectedColors) ==
  LET matches ==
        { j \in 1..Len(selectedColors) :
            colorDistanceSquared(c.r, c.g, c.b, selectedColors[j].r,
                                 selectedColors[j].g, selectedColors[j].b)
              < selectedColors[j].tolerance * selectedColors[j].tolerance }
  IN IF matches = {} THEN 0
     ELSE CHOOSE j \in matches : \A k \in matches : j >= k

\* Lines 548-566: the place in selectedColors of the first colour with
\* distSq < toleranceSquared (the loop breaks there), 0 when there is none.
colorPickerMatch(c, selectedColors) ==
  LET matches ==
        { j \in 1..Len(selectedColors) :
            colorDistanceSquared(c.r, c.g, c.b, selectedColors[j].r,
                                 selectedColors[j].g, selectedColors[j].b)
              < selectedColors[j].tolerance * selectedColors[j].tolerance }
  IN IF matches = {} THEN 0
     ELSE CHOOSE j \in matches : \A k \in matches : j <= k

\* classifyHard writing a partial alpha: a matching pixel gets half the
\* alpha of the input instead of 0.
classifyHard_Half(imageData, settings) ==
  LET dominantColor ==
        IF settings.mode \in {"auto", "manual"}
        THEN detectDominantColor(imageData)
        ELSE [r |-> 255, g |-> 255, b |-> 255]
      matched(c) ==
        IF settings.mode = "colorPicker"
        THEN colorPickerMatch(c, settings.selectedColors) > 0
        ELSE colorDistanceSquared(c.r, c.g, c.b, dominantColor.r,
                                  dominantColor.g, dominantColor.b)
               < thresholdSquared(settings)
  IN [p \in 1..totalPixels(imageData) |->
        IF matched(imageData.data[p]) THEN imageData.alpha[p] \div 2
        ELSE imageData.alpha[p]]

\* Phase 1 with edgeMode hard: a matching pixel gets alpha 0, every other
\* pixel keeps the alpha of the input.
classifyHard(imageData, settings) ==
  LET dominantColor ==
        IF settings.mode \in {"auto", "manual"}
        THEN detectDominantColor(imageData)
        ELSE [r |-> 255, g |-> 255, b |-> 255]
      matched(c) ==
        IF settings.mode = "colorPicker"
        THEN colorPickerMatch(c, settings.selectedColors) > 0
        ELSE colorDistanceSquared(c.r, c.g, c.b, dominantColor.r,
                                  dominantColor.g, dominantColor.b)
               < thresholdSquared(settings)
  IN [p \in 1..totalPixels(imageData) |->
        IF matched(imageData.data[p]) THEN 0 ELSE imageData.alpha[p]]

\* Math.sqrt of a squared distance.  The colours of the model are greys
\* (r = g = b), for which the weighted squared distance is 9 k^2 and the
\* distance the integer 3 k.
sqrtExact(distSq) == CHOOSE s \in 0..(3 * 255) : s * s = distSq

\* function gaussianFalloff(distance, threshold, featherRadius), with the
\* threshold given in tenths (the callers pass tolerance * 0.7):
\* t = (distance - threshold) / featherRadius = n / m and the value is
\* Math.round(t * t * (3 - 2 * t) * 255).
gaussianFalloff(distance, thresholdTenths, featherRadius) ==
  LET n == 10 * distance - thresholdTenths
      m == 10 * featherRadius
  IN IF 10 * distance <= thresholdTenths THEN 0
     ELSE IF 10 * distance >= thresholdTenths + 10 * featherRadius THEN 255
     ELSE RoundDiv(255 * n * n * (3 * m - 2 * n), m * m * m)

\* Lines 546-585: the test of one pixel.  hit: the pixel matched; distSq and
\* tolerance: the squared distance and the tolerance (the tolerance of the
\* first matching colour, or effectiveThreshold) of the match.
pixelMatch(dominantColor, settings, c) ==
  IF settings.mode = "colorPicker"
  THEN LET j == colorPickerMatch(c, settings.selectedColors)
       IN IF j = 0 THEN [hit |-> FALSE, distSq |-> 0, tolerance |-> 0]
          ELSE [hit |-> TRUE,
                distSq |-> colorDistanceSquared(c.r, c.g, c.b,
                             settings.selectedColors[j].r,
                             settings.selectedColors[j].g,
                             settings.selectedColors[j].b),
                tolerance |-> settings.selectedColors[j].tolerance]
  ELSE LET distSq == colorDistanceSquared(c.r, c.g, c.b, dominantColor.r,
                                          dominantColor.g, dominantColor.b)
       IN [hit |-> distSq < thresholdSquared(settings),
           distSq |-> distSq,
           tolerance |-> IF settings.mode = "auto"
                         THEN (IF settings.autoThreshold = <<>> THEN 0
                               ELSE settings.autoThreshold[1])
                         ELSE settings.threshold]

\* Lines 505-509: the colour the pixels are compared with.
dominantColorOf(imageData, settings) ==
  IF settings.mode \in {"auto", "manual"}
  THEN detectDominantColor(imageData)
  ELSE [r |-> 255, g |-> 255, b |-> 255]

\* Phase 1 with edgeMode feathered: a matching pixel gets
\* gaussianFalloff(dist, tolerance * 0.7, featherRadius), every other pixel
\* keeps the alpha of the input.
classifyFeathered(imageData, settings) ==
  LET dominantColor == dominantColorOf(imageData, settings)
  IN [p \in 1..totalPixels(imageData) |->
        LET m == pixelMatch(dominantColor, settings, imageData.data[p])
        IN IF m.hit
           THEN gaussianFalloff(sqrtExact(m.distSq), 7 * m.tolerance,
                                settings.featherRadius)
           ELSE imageData.alpha[p]]

\* Phase 1 with an advanced edge mode: alphaMask starts at 255 everywhere
\* (lines 525-528) and a matching pixel gets Math.round(dist / tolerance *
\* 255); the alpha bytes of the buffer are not read and not written.
classifyMask(imageData, settings) ==
  LET dominantColor == dominantColorOf(imageData, settings)
  IN [p \in 1..totalPixels(imageData) |->
        LET m == pixelMatch(dominantColor, settings, imageData.data[p])
        IN IF m.hit
           THEN RoundDiv(255 * sqrtExact(m.distSq), m.tolerance)
           ELSE 255]

\* alphaMask[y * width + x].
MaskAt(mask, width, x, y) == mask[y * width + x + 1]

\* Math.exp(-1 / (2 * smoothRadius)) in ten-thousandths, for the radii 1..5
\* that smoothEdges clamps to.
expBase(smoothRadius) == <<6065, 7788, 8465, 8825, 9048>>[smoothRadius]

RECURSIVE kernelWeight(_, _)
\* Math.exp(-(dist * dist) / (2 * smoothRadius)) in ten-thousandths, with
\* distSq = dx * dx + dy * dy: the power distSq of expBase.  The weights are
\* kept to four decimals; the code computes them in double precision.
kernelWeight(distSq, smoothRadius) ==
  IF distSq = 0 THEN 10000
  ELSE IF distSq % 2 = 0
  THEN LET half == kernelWeight(distSq \div 2, smoothRadius)
       IN RoundDiv(half * half, 10000)
  ELSE RoundDiv(kernelWeight(distSq - 1, smoothRadius) * expBase(smoothRadius),
                10000)

\* function smoothEdges: a pixel none of whose four neighbours differs is
\* copied; any other pixel gets Math.round of the average of its
\* (2 r + 1)^2 neighbourhood, clamped to the image, with the normalised
\* kernel (weight / kernelSum).
smoothEdges(alphaMask, width, height, radius) ==
  LET smoothRadius == Max(1, Min(radius, 5))
      kernelSize == smoothRadius * 2 + 1
      \* entry ki of the kernel, ki = 0 .. kernelSize^2 - 1, and the
      \* offsets dy (outer loop) and dx (inner loop) it is applied to
      dyOf(ki) == ki \div kernelSize - smoothRadius
      dxOf(ki) == (ki % kernelSize) - smoothRadius
      kernel == [ki \in 0..(kernelSize * kernelSize - 1) |->
                   kernelWeight(dxOf(ki) * dxOf(ki) + dyOf(ki) * dyOf(ki),
                                smoothRadius)]
      kernelSum == SumRange(kernel, 0, kernelSize * kernelSize - 1)
      value(x, y) ==
        LET centerAlpha == MaskAt(alphaMask, width, x, y)
            hasVariation ==
              \/ x > 0 /\ MaskAt(alphaMask, width, x - 1, y) # centerAlpha
              \/ x < width - 1 /\ MaskAt(alphaMask, width, x + 1, y) # centerAlpha
              \/ y > 0 /\ MaskAt(alphaMask, width, x, y - 1) # centerAlpha
              \/ y < height - 1 /\ MaskAt(alphaMask, width, x, y + 1) # centerAlpha
            sum ==
              SumRange([ki \in 0..(kernelSize * kernelSize - 1) |->
                          MaskAt(alphaMask, width,
                                 Max(0, Min(width - 1, x + dxOf(ki))),
                                 Max(0, Min(height - 1, y + dyOf(ki))))
                          * kernel[ki]],
                       0, kernelSize * kernelSize - 1)
        IN IF ~hasVariation THEN centerAlpha ELSE RoundDiv(sum, kernelSum)
  IN [p \in 1..(width * height) |-> value((p - 1) % width, (p - 1) \div width)]

\* The pixels of the image within the disc of erodeRadius around (x, y).
discAround(width, height, x, y, erodeRadius) ==
  { n \in (0..(width - 1)) \X (0..(height - 1)) :
      /\ n[1] - x \in -erodeRadius..erodeRadius
      /\ n[2] - y \in -erodeRadius..erodeRadius
      /\ (n[1] - x) * (n[1] - x) + (n[2] - y) * (n[2] - y)
           <= erodeRadius * erodeRadius }

\* function refineEdges: erosion (the minimum over the disc), dilation (the
\* maximum over the disc), then a 3x3 box blur of the interior pixels one
\* of whose four neighbours differs.
refineEdges(alphaMask, width, height, radius) ==
  LET erodeRadius == Max(1, Min(radius, 3))
      pixels == (0..(width - 1)) \X (0..(height - 1))
      temp == [n \in pixels |->
                 SetMin({ MaskAt(alphaMask, width, q[1], q[2]) :
                            q \in discAround(width, height, n[1], n[2],
                                             erodeRadius) })]
      refined == [n \in pixels |->
                    SetMax({ temp[q] :
                               q \in discAround(width, height, n[1], n[2],
                                                erodeRadius) })]
      smoothed(x, y) ==
        LET center == refined[<<x, y>>]
            hasEdge ==
              \/ refined[<<x - 1, y>>] # center
              \/ refined[<<x + 1, y>>] # center
              \/ refined[<<x, y - 1>>] # center
              \/ refined[<<x, y + 1>>] # center
            sum == SumRange([k \in 0..8 |->
                               refined[<<x - 1 + (k % 3), y - 1 + (k \div 3)>>]],
                            0, 8)
        IN IF x > 0 /\ x < width - 1 /\ y > 0 /\ y < height - 1 /\ hasEdge
           THEN RoundDiv(sum, 9)
           ELSE center
  IN [p \in 1..(width * height) |->
        smoothed((p - 1) % width, (p - 1) \div width)]

\* Lines 614-643: the mask that phase 2 writes into the alpha bytes.
\* decontaminateEdges (lines 646-652) then changes colours only.
processedMask(alphaMask, width, height, settings) ==
  IF settings.edgeMode = "smooth"
  THEN smoothEdges(alphaMask, width, height, settings.featherRadius)
  ELSE IF settings.edgeMode = "refine"
  THEN refineEdges(alphaMask, width, height, settings.featherRadius)
  ELSE smoothEdges(alphaMask, width, height,
                   Max(1, settings.featherRadius \div 2))

\* Lines 660-680, one region: data[((globalY * width + bounds.x + localX)
\* << 2) + 3] = alphaValue for every set bit of the decoded mask.  A write
\* outside the typed array does nothing.
stampRegion(alpha, width, region) ==
  LET bounds == region.bounds
      maskWidth == bounds.width
      maskHeight == bounds.height
      alphaValue == IF region.mode = "keep" THEN 255 ELSE 0
      mask == decodeMaskFromRLE(region.maskRLE, maskWidth * maskHeight)
      written ==
        { (bounds.y + l[1]) * width + bounds.x + l[2] :
            l \in { m \in (0..(maskHeight - 1)) \X (0..(maskWidth - 1)) :
                      mask[m[1] * maskWidth + m[2] + 1] = 1 } }
  IN [p \in 1..Len(alpha) |->
        IF (p - 1) \in written THEN alphaValue ELSE alpha[p]]

RECURSIVE stampRegions(_, _, _, _)
\* Lines 657-683: for (const region of magicSelection.appliedRegions).
stampRegions(alpha, width, appliedRegions, i) ==
  IF i > Len(appliedRegions) THEN alpha
  ELSE stampRegions(stampRegion(alpha, width, appliedRegions[i]), width,
                    appliedRegions, i + 1)

(***************************************************************************)
(* SpecPix.  The job is drawn from small sets.  Its regions are regions    *)
(* that magicSelect returns for a click on one of the images: the list the *)
(* App sends is committedMagicRegions, which handleImageUpload leaves as   *)
(* it is, so a job's regions may have been selected on an image other than *)
(* the one the job processes.                                              *)
(***************************************************************************)
PixImages == {ImageA, ImageB}

PixSeeds == { <<2, 0>>, <<1, 1>> }

PixTolerances == {0, 10}

\* The alpha channels of the inputs: opaque, with a transparent first
\* pixel, or with a half-transparent last pixel.
PixAlphas(img) ==
  { [p \in 1..totalPixels(img) |-> 255],
    [p \in 1..totalPixels(img) |-> IF p = 1 THEN 0 ELSE 255],
    [p \in 1..totalPixels(img) |-> IF p = totalPixels(img) THEN 128 ELSE 255] }

\* The clicks of the canvas are pixels of the image shown.
PixSeedsIn(img) == { q \in PixSeeds : q[1] < img.width /\ q[2] < img.height }

PixRegions ==
  UNION { { [magicSelect(img, s[1], s[2], t, 0) EXCEPT !.mode = m] :
              s \in PixSeedsIn(img), t \in PixTolerances,
              m \in {"keep", "remove"} } :
          img \in PixImages }

PixRegionLists ==
  UNION { [1..n -> PixRegions] : n \in 0..MaxPixRegions }

\* A selected colour of the colour picker: white with a tolerance.  Cream
\* lies at distance 15 of white and grey at distance 30.
PickWhite(tolerance) == [r |-> 255, g |-> 255, b |-> 255, tolerance |-> tolerance]

\* One job without a match (manual, threshold 0) for every edge mode, and
\* jobs with matches: with threshold 30 cream matches white, with threshold
\* 40 grey matches too and lies in the feathered band.  Colour picker jobs
\* with one colour, with two colours that both match cream in either order,
\* and with a colour of tolerance 0 before one whose tolerance is the
\* distance of cream.
PixSettings ==
  { [mode |-> "manual", threshold |-> 0, autoThreshold |-> <<>>,
     selectedColors |-> <<>>, edgeMode |-> e, featherRadius |-> 2] :
      e \in EdgeModes }
  \cup
  { [mode |-> "manual", threshold |-> 30, autoThreshold |-> <<>>,
     selectedColors |-> <<>>, edgeMode |-> e, featherRadius |-> 2] :
      e \in {"hard", "smooth", "refine"} }
  \cup
  { [mode |-> "manual", threshold |-> 40, autoThreshold |-> <<>>,
     selectedColors |-> <<>>, edgeMode |-> "feathered", featherRadius |-> 5],
    [mode |-> "auto", threshold |-> 30, autoThreshold |-> <<20>>,
     selectedColors |-> <<>>, edgeMode |-> "hard", featherRadius |-> 2] }
  \cup
  { [mode |-> "colorPicker", threshold |-> 30, autoThreshold |-> <<>>,
     selectedColors |-> << [r |-> 0, g |-> 0, b |-> 0, tolerance |-> 30] >>,
     edgeMode |-> e, featherRadius |-> 2] :
      e \in {"hard", "decontaminate"} }
  \cup
  { [mode |-> "colorPicker", threshold |-> 30, autoThreshold |-> <<>>,
     selectedColors |-> colours, edgeMode |-> "feathered",
     featherRadius |-> 5] :
      colours \in { << PickWhite(20), PickWhite(60) >>,
                    << PickWhite(60), PickWhite(20) >> } }
  \cup
  { [mode |-> "colorPicker", threshold |-> 30, autoThreshold |-> <<>>,
     selectedColors |-> << PickWhite(0), PickWhite(15) >>,
     edgeMode |-> "hard", featherRadius |-> 2] }

InitPix ==
  /\ ProtocolIdle
  /\ SelIdle
  /\ AppIdle
  /\ RleIdle
  /\ AutoIdle
  /\ HookIdle
  /\ OverlapIdle
  /\ ThresholdIdle
  /\ \E img \in PixImages, settings \in PixSettings,
        regions \in PixRegionLists :
       \E alpha \in PixAlphas(img) :
         pixJob =
           << [ type |-> "process",
                imageData |-> [width |-> img.width, height |-> img.height,
                               data |-> img.data, alpha |-> alpha],
                settings |->
                  [mode |-> settings.mode, threshold |-> settings.threshold,
                   autoThreshold |-> settings.autoThreshold,
                   selectedColors |-> settings.selectedColors,
                   edgeMode |-> settings.edgeMode,
                   featherRadius |-> settings.featherRadius,
                   magicSelection |-> [appliedRegions |-> regions]] ] >>
  /\ pixMask = <<>>
  /\ pixBefore = <<>>
  /\ pixDone = <<>>

\* processImage up to its await: phase 1 over the one chunk of the image.
\* With hard and feathered it writes the alpha bytes, with an advanced edge
\* mode it fills alphaMask.
PixClassify ==
  /\ pixJob # <<>>
  /\ pixBefore = <<>>
  /\ pixMask = <<>>
  /\ totalPixels(pixJob[1].imageData) <= chunkSize
  /\ IF useAdvancedEdge(pixJob[1].settings)
     THEN /\ pixMask' = <<classifyMask(pixJob[1].imageData, pixJob[1].settings)>>
          /\ pixBefore' = <<>>
     ELSE /\ pixBefore' =
               IF pixJob[1].settings.edgeMode = "hard"
               THEN <<classifyHard(pixJob[1].imageData, pixJob[1].settings)>>
               ELSE <<classifyFeathered(pixJob[1].imageData, pixJob[1].settings)>>
          /\ pixMask' = <<>>
  /\ UNCHANGED <<pixJob, pixDone>>
  /\ UNCHANGED nonPixVars

\* processImage after the await, edgeMode hard or feathered: no phase 2,
\* the regions stamped, the complete response posted.
PixStamp ==
  /\ pixBefore # <<>>
  /\ pixDone = <<>>
  /\ ~useAdvancedEdge(pixJob[1].settings)
  /\ pixDone' =
       <<stampRegions(pixBefore[1], pixJob[1].imageData.width,
                      pixJob[1].settings.magicSelection.appliedRegions, 1)>>
  /\ UNCHANGED <<pixJob, pixMask, pixBefore>>
  /\ UNCHANGED nonPixVars

\* processImage after the await, advanced edge mode: phase 2 computes the
\* processed mask, data[pixelIndex + 3] = processedMask[i] for every pixel,
\* then the regions are stamped and the complete response posted.
PixRefine ==
  /\ pixMask # <<>>
  /\ pixDone = <<>>
  /\ useAdvancedEdge(pixJob[1].settings)
  /\ LET mask == processedMask(pixMask[1], pixJob[1].imageData.width,
                               pixJob[1].imageData.height, pixJob[1].settings)
     IN /\ pixBefore' = <<mask>>
        /\ pixDone' =
             <<stampRegions(mask, pixJob[1].imageData.width,
                            pixJob[1].settings.magicSelection.appliedRegions, 1)>>
  /\ UNCHANGED <<pixJob, pixMask>>
  /\ UNCHANGED nonPixVars

NextPix ==
  \/ PixClassify
  \/ PixStamp
  \/ PixRefine

SpecPix == InitPix /\ [][NextPix]_vars

(***************************************************************************)
(* SpecRle.  Two masks of the same size are drawn; each is encoded, the    *)
(* encodings are decoded to the size of the masks and merged with each     *)
(* other, in both orders, and with themselves.                             *)
(***************************************************************************)
\* The longest mask drawn.
MaxMaskLen == 4

RleMasks(n) == [1..n -> {0, 1}]

InitRle ==
  /\ ProtocolIdle
  /\ SelIdle
  /\ AppIdle
  /\ PixIdle
  /\ AutoIdle
  /\ HookIdle
  /\ OverlapIdle
  /\ ThresholdIdle
  /\ \E n \in 0..MaxMaskLen :
       \E a \in RleMasks(n), b \in RleMasks(n) : rleIn = [a |-> a, b |-> b]
  /\ rleEncoded = <<>>
  /\ rleDecoded = <<>>
  /\ rleMerged = <<>>

RleEncode ==
  /\ rleEncoded = <<>>
  /\ rleEncoded' = <<[a |-> encodeMaskToRLE(rleIn.a),
                      b |-> encodeMaskToRLE(rleIn.b)]>>
  /\ UNCHANGED <<rleIn, rleDecoded, rleMerged>>
  /\ UNCHANGED nonRleVars

RleDecode ==
  /\ rleEncoded # <<>>
  /\ rleDecoded = <<>>
  /\ rleDecoded' = <<[a |-> decodeMaskFromRLE(rleEncoded[1].a, Len(rleIn.a)),
                      b |-> decodeMaskFromRLE(rleEncoded[1].b, Len(rleIn.b))]>>
  /\ UNCHANGED <<rleIn, rleEncoded, rleMerged>>
  /\ UNCHANGED nonRleVars

RleMerge ==
  /\ rleEncoded # <<>>
  /\ rleMerged = <<>>
  /\ rleMerged' =
       <<[ab |-> mergeRLEMasks(rleEncoded[1].a, rleEncoded[1].b, Len(rleIn.a)),
          ba |-> mergeRLEMasks(rleEncoded[1].b, rleEncoded[1].a, Len(rleIn.a)),
          aa |-> mergeRLEMasks(rleEncoded[1].a, rleEncoded[1].a, Len(rleIn.a))]>>
  /\ UNCHANGED <<rleIn, rleEncoded, rleDecoded>>
  /\ UNCHANGED nonRleVars

NextRle ==
  \/ RleEncode
  \/ RleDecode
  \/ RleMerge

SpecRle == InitRle /\ [][NextRle]_vars

(***************************************************************************)
(* calculateAutoThreshold (lines 780-844).  The threshold is a quotient of *)
(* integers, [num, den]: optimalBin / 255 * 442, clamped.  The colours of  *)
(* the images drawn are greys, whose distances are integers.               *)
(***************************************************************************)
\* x * y > u * v, for products beyond 32 bits (y, v below 2^15).
ProductGreater(x, y, u, v) ==
  LET hi(a, b) == (a \div 32768) * b + ((a % 32768) * b) \div 32768
      lo(a, b) == ((a % 32768) * b) % 32768
  IN \/ hi(x, y) > hi(u, v)
     \/ hi(x, y) = hi(u, v) /\ lo(x, y) > lo(u, v)

\* const maxDistance = 442 and const histogramBins = 256.
maxDistance == 442
histogramBins == 256

RECURSIVE histogramFrom(_, _, _, _)
\* Lines 793-804, the histogram loop from pixel i on: every 4th pixel adds
\* one to the bin of its distance to the dominant colour.
histogramFrom(imageData, dominantColor, histogram, i) ==
  IF i < totalPixels(imageData)
  THEN LET c == PixelAt(imageData, i)
           dist == sqrtExact(colorDistanceSquared(
                     c.r, c.g, c.b,
                     dominantColor.r, dominantColor.g, dominantColor.b))
           binIndex == Min((dist * (histogramBins - 1)) \div maxDistance,
                           histogramBins - 1)
       IN histogramFrom(imageData, dominantColor,
                        [histogram EXCEPT ![binIndex] = @ + 1], i + 4)
  ELSE histogram

\* Lines 806-835, Otsu's method.  The loop skips the bins before the first
\* sample, stops at the bin that holds the last one, and in between keeps
\* the first bin of the greatest between-class variance
\*   weightBackground * weightForeground * (meanBackground - meanForeground)^2
\*     = cross^2 / (weightBackground * weightForeground).
\* Over a run of empty bins the variance repeats that of the bin before the
\* run, so only a bin that holds a sample raises maxVariance.
optimalBinOf(histogram, sampledPixels) ==
  LET weightBackground(t) == SumRange(histogram, 0, t)
      sumBackground(t) ==
        SumRange([b \in 0..t |-> b * histogram[b]], 0, t)
      sumTotal == sumBackground(histogramBins - 1)
      weightForeground(t) == sampledPixels - weightBackground(t)
      computed == { t \in 0..(histogramBins - 1) :
                      histogram[t] # 0 /\ weightForeground(t) # 0 }
      cross(t) == sumBackground(t) * weightForeground(t)
                    - (sumTotal - sumBackground(t)) * weightBackground(t)
      varNum(t) == cross(t) * cross(t)
      varDen(t) == weightBackground(t) * weightForeground(t)
      greater(t, u) == ProductGreater(varNum(t), varDen(u), varNum(u), varDen(t))
      raising == { t \in computed :
                     /\ varNum(t) > 0
                     /\ \A u \in computed : u < t => greater(t, u) }
  IN IF raising = {} THEN 0
     ELSE CHOOSE t \in raising : \A u \in raising : u <= t

\* calculateAutoThreshold without Math.max(20, Math.min(threshold, 150)).
calculateAutoThreshold_Unclamped(imageData) ==
  LET dominantColor == detectDominantColor(imageData)
      sampledPixels == (totalPixels(imageData) + 3) \div 4
      histogram == histogramFrom(imageData, dominantColor,
                                 [b \in 0..(histogramBins - 1) |-> 0], 0)
      optimalBin == optimalBinOf(histogram, sampledPixels)
  IN [threshold |-> [num |-> optimalBin * maxDistance, den |-> histogramBins - 1],
      dominantColor |-> dominantColor]

\* function calculateAutoThreshold: threshold = optimalBin / 255 * 442,
\* clampedThreshold = Math.max(20, Math.min(threshold, 150)).
calculateAutoThreshold(imageData) ==
  LET dominantColor == detectDominantColor(imageData)
      sampledPixels == (totalPixels(imageData) + 3) \div 4
      histogram == histogramFrom(imageData, dominantColor,
                                 [b \in 0..(histogramBins - 1) |-> 0], 0)
      optimalBin == optimalBinOf(histogram, sampledPixels)
      threshold == [num |-> optimalBin * maxDistance, den |-> histogramBins - 1]
      clampedThreshold ==
        IF threshold.num > 150 * threshold.den
        THEN [num |-> 150 * threshold.den, den |-> threshold.den]
        ELSE IF threshold.num < 20 * threshold.den
             THEN [num |-> 20 * threshold.den, den |-> threshold.den]
             ELSE threshold
  IN [threshold |-> clampedThreshold, dominantColor |-> dominantColor]

(***************************************************************************)
(* SpecAuto.  An image is drawn and calculateAutoThreshold applied to it,  *)
(* as the dispatcher does for a calculateAutoThreshold request (lines      *)
(* 992-998).                                                               *)
(***************************************************************************)
\* The most pixels the histogram loop samples of a one-row image drawn.
MaxAutoSamples == 4

MidGrey == [r |-> 195, g |-> 195, b |-> 195]

AutoShades == {White, Grey, MidGrey, Black}

\* One-row images: the pixels the loop samples (every 4th) take every
\* shade, the others are white.  Narrower than 10 pixels, their corner
\* blocks are empty and the dominant colour is the default white.
AutoStrips ==
  UNION { { [width |-> 4 * (n - 1) + 1, height |-> 1,
             data |-> [p \in 1..(4 * (n - 1) + 1) |->
                         IF (p - 1) % 4 = 0 THEN f[(p - 1) \div 4 + 1]
                         ELSE White]] :
              f \in [1..n -> AutoShades] } :
          n \in 1..MaxAutoSamples }

\* Pixels of a 10 x 10 image painted in a second shade: none, one sampled
\* pixel, three sampled pixels, a corner and a sampled pixel.
AutoSpots == { {}, {44}, {40, 44, 48}, {0, 44} }

\* 10 x 10 images, whose corner blocks are one pixel each.
AutoSquares ==
  { [width |-> 10, height |-> 10,
     data |-> [p \in 1..100 |-> IF (p - 1) \in spots THEN fg ELSE bg]] :
      bg \in AutoShades, fg \in AutoShades, spots \in AutoSpots }

AutoImages == AutoStrips \cup AutoSquares

InitAuto ==
  /\ ProtocolIdle
  /\ SelIdle
  /\ AppIdle
  /\ PixIdle
  /\ RleIdle
  /\ HookIdle
  /\ OverlapIdle
  /\ ThresholdIdle
  /\ autoIn \in { <<img>> : img \in AutoImages }
  /\ autoOut = <<>>

AutoCalculate ==
  /\ autoIn # <<>>
  /\ autoOut = <<>>
  /\ autoOut' = <<calculateAutoThreshold(autoIn[1])>>
  /\ UNCHANGED autoIn
  /\ UNCHANGED nonAutoVars

NextAuto == AutoCalculate

SpecAuto == InitAuto /\ [][NextAuto]_vars

(***************************************************************************)
(* SpecHook.  The hook useImageProcessor between its caller and the        *)
(* worker.  An ImageData is [width, height, data, alpha, detached]: data   *)
(* and alpha are the colour and alpha bytes of its buffer, and a detached  *)
(* buffer has no bytes.  A posted message holds its own copy of what it    *)
(* names, except for the buffers of the transfer list, which move to the   *)
(* receiver and are detached in the sender.                                *)
(***************************************************************************)
\* Calls of processImage of the hook in one behaviour.
MaxHookCalls == 3

\* The ArrayBuffer of img after a transfer: byteLength 0.
Detach(img) == [img EXCEPT !.data = <<>>, !.alpha = <<>>, !.detached = TRUE]

\* processImage posting the caller's ImageData itself, transfer list
\* [imageData.data.buffer].
hookProcessImage_NoClone(imageData, settings) ==
  LET message == [type |-> "process", imageData |-> imageData,
                  settings |-> settings]
  IN [caller |-> Detach(imageData), message |-> message]

\* useImageProcessor.ts lines 139-156: new Uint8ClampedArray(imageData.data)
\* copies the bytes into a buffer of its own, and the transfer list names
\* clonedData.data.buffer only.
hookProcessImage(imageData, settings) ==
  LET clonedData == [width |-> imageData.width, height |-> imageData.height,
                     data |-> imageData.data, alpha |-> imageData.alpha,
                     detached |-> FALSE]
      message == [type |-> "process", imageData |-> clonedData,
                  settings |-> settings]
  IN [caller |-> imageData, message |-> message]

\* The alpha bytes of the worker's buffer when processImage has written
\* them (lines 531-602 and 668-680), for an image of one chunk and edge
\* mode hard or feathered.
processedAlpha(imageData, settings) ==
  stampRegions(IF settings.edgeMode = "hard"
               THEN classifyHard(imageData, settings)
               ELSE classifyFeathered(imageData, settings),
               imageData.width, settings.magicSelection.appliedRegions, 1)

\* The jobs submitted: the settings of SpecPix that find a match, edge mode
\* hard or feathered.
HookSettings ==
  { [mode |-> s.mode, threshold |-> s.threshold,
     autoThreshold |-> s.autoThreshold, selectedColors |-> s.selectedColors,
     edgeMode |-> s.edgeMode, featherRadius |-> s.featherRadius,
     magicSelection |-> [appliedRegions |-> <<>>]] :
      s \in { t \in PixSettings :
                 t.threshold # 0 /\ ~useAdvancedEdge(t) } }

InitHook ==
  /\ ProtocolIdle
  /\ SelIdle
  /\ AppIdle
  /\ PixIdle
  /\ RleIdle
  /\ AutoIdle
  /\ OverlapIdle
  /\ ThresholdIdle
  /\ \E img \in PixImages :
       \E alpha \in PixAlphas(img) :
         hookCaller = << [width |-> img.width, height |-> img.height,
                          data |-> img.data, alpha |-> alpha,
                          detached |-> FALSE] >>
  /\ hookIsProcessing = FALSE
  /\ hookToWorker = <<>>
  /\ hookFromWorker = <<>>
  /\ hookCompleted = <<>>
  /\ hookCalls = 0

\* processImage(imageData, settings) of the hook, the worker initialised.
\* The constructor of the clone and postMessage throw on a detached buffer.
HookProcessImage ==
  /\ hookCalls < MaxHookCalls
  /\ ~hookCaller[1].detached
  /\ \E settings \in HookSettings :
       LET posted == hookProcessImage(hookCaller[1], settings)
       IN /\ hookCaller' = <<posted.caller>>
          /\ hookToWorker' = Append(hookToWorker, posted.message)
  /\ hookIsProcessing' = TRUE
  /\ hookCalls' = hookCalls + 1
  /\ UNCHANGED <<hookFromWorker, hookCompleted>>
  /\ UNCHANGED nonHookVars

\* self.onmessage of the worker for a process request, run to its last
\* response: the job writes the alpha bytes of the buffer it received and
\* transfers that buffer back with the complete response (lines 683-688).
HookWorkerHandles ==
  /\ hookToWorker # <<>>
  /\ LET message == Head(hookToWorker)
     IN hookFromWorker' =
          Append(hookFromWorker,
                 [type |-> "complete",
                  imageData |->
                    [message.imageData EXCEPT
                       !.alpha = processedAlpha(message.imageData,
                                                message.settings)]])
  /\ hookToWorker' = Tail(hookToWorker)
  /\ UNCHANGED <<hookCaller, hookIsProcessing, hookCompleted, hookCalls>>
  /\ UNCHANGED nonHookVars

\* workerRef.current.onmessage, case 'complete' (lines 68-74): the
\* processing ends and response.imageData goes to onComplete.
HookOnMessage ==
  /\ hookFromWorker # <<>>
  /\ Head(hookFromWorker).type = "complete"
  /\ hookIsProcessing' = FALSE
  /\ hookCompleted' = <<Head(hookFromWorker).imageData>>
  /\ hookFromWorker' = Tail(hookFromWorker)
  /\ UNCHANGED <<hookCaller, hookToWorker, hookCalls>>
  /\ UNCHANGED nonHookVars

NextHook ==
  \/ HookProcessImage
  \/ HookWorkerHandles
  \/ HookOnMessage

SpecHook == InitHook /\ [][NextHook]_vars

(***************************************************************************)
(* SpecOverlap: the hook and the App callbacks in front of the worker of   *)
(* the protocol specification.  processImage of the hook posts whenever    *)
(* the process effect of the App calls it, a job in flight or not; the     *)
(* worker runs OnProcess and OnTimer; the hook handles the responses in    *)
(* the order the worker posted them.  The App never calls                  *)
(* cancelProcessing.                                                       *)
(***************************************************************************)
\* processImage of the hook (lines 126-158), called by the process effect.
OverlapProcessImage ==
  /\ Len(sent) < MaxRequests
  /\ \E m \in ProcessRequests :
       /\ sent' = Append(sent, m)
       /\ inbox' = Append(inbox, Len(sent) + 1)
  /\ isProcessing' = TRUE
  /\ UNCHANGED <<isCancelled, timers, outbox, cancelSeen>>
  /\ UNCHANGED <<processedImageData, handled>>
  /\ UNCHANGED nonOverlapVars

\* workerRef.current.onmessage (lines 57-99) for the oldest response not yet
\* handled; onComplete of the App (App.tsx lines 78-81) stores the result.
OverlapOnMessage ==
  /\ handled < Len(outbox)
  /\ LET response == outbox[handled + 1].msg
         to == outbox[handled + 1].to
     IN /\ isProcessing' =
             IF response.type \in {"complete", "error", "cancelled"}
             THEN FALSE ELSE isProcessing
        /\ processedImageData' =
             IF response.type = "complete" THEN <<sent[to]>>
             ELSE processedImageData
  /\ handled' = handled + 1
  /\ UNCHANGED protocolVars
  /\ UNCHANGED nonOverlapVars

InitOverlap ==
  /\ ProtocolIdle
  /\ SelIdle
  /\ AppIdle
  /\ PixIdle
  /\ RleIdle
  /\ AutoIdle
  /\ HookIdle
  /\ OverlapIdle
  /\ ThresholdIdle

NextOverlap ==
  \/ OverlapProcessImage
  \/ OnProcess
  \/ OnTimer
  \/ OverlapOnMessage

SpecOverlap == InitOverlap /\ [][NextOverlap]_vars

(***************************************************************************)
(* SpecThreshold: the thresholds of the jobs the App submits.  An upload   *)
(* stores the image and posts a calculateAutoThreshold request; the        *)
(* process effect runs when the image, the mode, the threshold or the auto *)
(* threshold changes.  Thresholds are fractions [num, den], as             *)
(* calculateAutoThreshold returns them.                                    *)
(***************************************************************************)
\* Images uploaded in one behaviour.
MaxUploads == 2

\* The one-row images of five pixels.
ThresholdImages == { img \in AutoStrips : img.width = 5 }

\* Values of the threshold slider.
ThresholdValues == { [num |-> 128, den |-> 1], [num |-> 64, den |-> 1] }

\* App.tsx lines 134-164, for the modes auto and manual: the message of the
\* process effect, with the fields of settings that carry a threshold.
ThresholdEffect(image, settings) ==
  IF image = <<>> THEN <<>>
  ELSE LET effectiveThreshold ==
             IF settings.mode = "auto" /\ settings.autoThreshold # <<>>
             THEN settings.autoThreshold[1]
             ELSE settings.threshold
       IN << [type |-> "process", imageData |-> image[1],
              settings |->
                [mode |-> settings.mode,
                 threshold |-> effectiveThreshold,
                 autoThreshold |->
                   IF settings.autoThreshold = <<>>
                   THEN [num |-> 0, den |-> 1]
                   ELSE settings.autoThreshold[1]]] >>

\* part_007 lines 992-998: the response to a calculateAutoThreshold request.
AutoThresholdResponse(result) ==
  [type |-> "autoThreshold", threshold |-> result.threshold,
   dominantColor |-> result.dominantColor]

\* case 'SET_AUTO_THRESHOLD' of the reducer.
SET_AUTO_THRESHOLD(settings, payload) ==
  [settings EXCEPT !.autoThreshold = <<payload>>,
                   !.threshold = IF settings.mode = "auto" THEN payload ELSE @]

\* useImageProcessor.ts lines 76-80 with onAutoThreshold of the App: the
\* settings after the hook has handled an autoThreshold response.
onAutoThresholdResponse(response, settings) ==
  IF "autoThreshold" \in DOMAIN response
  THEN SET_AUTO_THRESHOLD(settings, response.autoThreshold)
  ELSE settings

\* line 501 of part_007: the threshold processImage compares with.
WorkerThreshold(job) ==
  IF job.settings.mode = "auto" THEN job.settings.autoThreshold
  ELSE job.settings.threshold

InitThreshold ==
  /\ ProtocolIdle
  /\ SelIdle
  /\ AppIdle
  /\ PixIdle
  /\ RleIdle
  /\ AutoIdle
  /\ HookIdle
  /\ OverlapIdle
  /\ ThresholdIdle

\* handleImageUpload, img.onload: setImage, calculateAutoThreshold; the
\* process effect runs for the new image.
ThresholdUpload ==
  /\ thrUploads < MaxUploads
  /\ \E img \in ThresholdImages :
       /\ thrImage # <<img>>
       /\ thrImage' = <<img>>
       /\ thrInFlight' = Append(thrInFlight,
                                [type |-> "calculateAutoThreshold",
                                 imageData |-> img])
       /\ thrJob' = ThresholdEffect(<<img>>, thrSettings)
  /\ thrUploads' = thrUploads + 1
  /\ UNCHANGED <<thrSettings, thrResponses>>
  /\ UNCHANGED nonThresholdVars

\* self.onmessage, case 'calculateAutoThreshold' (part_007 lines 992-998).
ThresholdWorker ==
  /\ thrInFlight # <<>>
  /\ thrResponses' =
       Append(thrResponses,
              AutoThresholdResponse(
                calculateAutoThreshold(Head(thrInFlight).imageData)))
  /\ thrInFlight' = Tail(thrInFlight)
  /\ UNCHANGED <<thrImage, thrSettings, thrJob, thrUploads>>
  /\ UNCHANGED nonThresholdVars

\* The hook handles the oldest response; the process effect runs if the
\* settings changed.
ThresholdAnswer ==
  /\ thrResponses # <<>>
  /\ thrSettings' = onAutoThresholdResponse(Head(thrResponses), thrSettings)
  /\ thrJob' = IF thrSettings' # thrSettings
               THEN ThresholdEffect(thrImage, thrSettings')
               ELSE thrJob
  /\ thrResponses' = Tail(thrResponses)
  /\ UNCHANGED <<thrImage, thrInFlight, thrUploads>>
  /\ UNCHANGED nonThresholdVars

\* setMode: UPDATE_SETTINGS with a mode.
ThresholdSetMode ==
  /\ \E mode \in {"auto", "manual"} :
       /\ mode # thrSettings.mode
       /\ thrSettings' = [thrSettings EXCEPT !.mode = mode]
  /\ thrJob' = IF thrImage = <<>> THEN thrJob
               ELSE ThresholdEffect(thrImage, thrSettings')
  /\ UNCHANGED <<thrImage, thrInFlight, thrResponses, thrUploads>>
  /\ UNCHANGED nonThresholdVars

\* setThreshold: UPDATE_SETTINGS with a threshold.
ThresholdSetThreshold ==
  /\ \E t \in ThresholdValues :
       /\ t # thrSettings.threshold
       /\ thrSettings' = [thrSettings EXCEPT !.threshold = t]
  /\ thrJob' = IF thrImage = <<>> THEN thrJob
               ELSE ThresholdEffect(thrImage, thrSettings')
  /\ UNCHANGED <<thrImage, thrInFlight, thrResponses, thrUploads>>
  /\ UNCHANGED nonThresholdVars

NextThreshold ==
  \/ ThresholdUpload
  \/ ThresholdWorker
  \/ ThresholdAnswer
  \/ ThresholdSetMode
  \/ ThresholdSetThreshold

SpecThreshold == InitThreshold /\ [][NextThreshold]_vars

(***************************************************************************)
(* What the claims speak of: the responses a process request received.     *)
(***************************************************************************)
ProcessIds == { j \in 1..Len(sent) : sent[j].type = "process" }

Queued == { inbox[i] : i \in 1..Len(inbox) }

\* The places of the outbox that answer request j, and the terminal ones.
Answers(j) == { i \in 1..Len(outbox) : outbox[i].to = j }

Terminals(j) == { i \in Answers(j) : outbox[i].msg.type \in TerminalTypes }

\* Request j has been dispatched and its processImage has returned.
Finished(j) == j \in ProcessIds /\ j \notin Queued /\ j \notin Running

\* The step in which self.onmessage takes a request of type t.
Dispatches(t) ==
  /\ sent' = sent
  /\ inbox # <<>>
  /\ inbox' = Tail(inbox)
  /\ sent[Head(inbox)].type = t

(***************************************************************************)
(* C1.  Whenever a cancel is handled after a process job has started and   *)
(* before its terminal response, the terminal response of that job is      *)
(* cancelled, never complete.  (The statement of the claim; the worker     *)
(* violates it.)                                                           *)
(***************************************************************************)
C1_CancelYieldsCancelled ==
  \A j \in cancelSeen : \A i \in Terminals(j) : outbox[i].msg.type = "cancelled"

(***************************************************************************)
(* C2.  A process request gets zero or more progress messages, then        *)
(* exactly one terminal response (complete, cancelled or error) and        *)
(* nothing after it; a cancelled response carries no image buffer.         *)
(***************************************************************************)
C2_OneTerminalLast ==
  \A j \in ProcessIds :
    /\ \A i \in Answers(j) : outbox[i].msg.type \in {"progress"} \cup TerminalTypes
    /\ j \in Queued => Answers(j) = {}
    /\ j \in Running => Terminals(j) = {}
    /\ Finished(j) => Cardinality(Terminals(j)) = 1
    /\ \A t \in Terminals(j) : \A i \in Answers(j) : i <= t
    /\ \A t \in Terminals(j) :
         outbox[t].msg.type = "cancelled" => DOMAIN outbox[t].msg = {"type"}

\* A job that posted progress and then ended cancelled.
C2_Witness ==
  \E j \in ProcessIds :
    /\ Finished(j)
    /\ \E t \in Terminals(j) : outbox[t].msg.type = "cancelled"
    /\ \E i \in Answers(j) : outbox[i].msg.type = "progress"

(***************************************************************************)
(* C3.  A cancel handled while no process job runs posts nothing and does  *)
(* not cancel a job submitted afterwards: a job during which no cancel was *)
(* handled ends with complete.                                             *)
(***************************************************************************)
C3_NoCancelThenComplete ==
  \A j \in ProcessIds :
    (Finished(j) /\ j \notin cancelSeen) =>
      \A t \in Terminals(j) : outbox[t].msg.type = "complete"

C3_StaleCancelHarmless ==
  /\ []C3_NoCancelThenComplete
  /\ [][Dispatches("cancel") => outbox' = outbox /\ timers' = timers]_vars

\* A cancel was handled before a job was dispatched; the job then completed
\* over several chunks.
C3_Witness ==
  \E c \in 1..Len(sent) : \E j \in ProcessIds :
    /\ sent[c].type = "cancel"
    /\ c < j
    /\ Finished(j)
    /\ j \notin cancelSeen
    /\ totalPixels(sent[j].imageData) > chunkSize
    /\ \E t \in Terminals(j) : outbox[t].msg.type = "complete"

(***************************************************************************)
(* C4.  A magicSelect request whose seed lies outside the image is         *)
(* answered with an error and with no magicSelectResult.  (The statement   *)
(* of the claim; the worker violates it.)                                  *)
(***************************************************************************)
SeedOutside(m) ==
  \/ m.magicSelectParams.x < 0
  \/ m.magicSelectParams.y < 0
  \/ m.magicSelectParams.x >= m.imageData.width
  \/ m.magicSelectParams.y >= m.imageData.height

C4_OutsideSeedIsError ==
  \A i \in 1..Len(outbox) :
    LET m == sent[outbox[i].to]
    IN (m.type = "magicSelect" /\ SeedOutside(m)) => outbox[i].msg.type = "error"

(***************************************************************************)
(* C5.  An unknown request is answered with an error naming its kind and   *)
(* leaves a process job in flight alone: flag and suspended run untouched, *)
(* and the job still ends with its own single terminal response.           *)
(***************************************************************************)
C5_UnknownStep ==
  \A k \in UnknownKinds :
    Dispatches(k) =>
      /\ outbox' = Append(outbox,
           [msg |-> [type |-> "error", error |-> <<"Unknown message type: ", k>>],
            to |-> Head(inbox)])
      /\ isCancelled' = isCancelled
      /\ timers' = timers

C5_UnknownIsolated ==
  /\ [][C5_UnknownStep]_vars
  /\ [](\A j \in ProcessIds :
          /\ Finished(j) => Cardinality(Terminals(j)) = 1
          /\ \A t \in Terminals(j) : outbox[t].msg.type # "error")

\* The error answering an unknown request lies between a job's first
\* response and that job's terminal response.
C5_Witness ==
  \E u \in 1..Len(sent) : \E j \in ProcessIds :
    /\ sent[u].type \in UnknownKinds
    /\ \E e \in Answers(u) : \E i \in Answers(j) : \E t \in Terminals(j) :
         i < e /\ e < t

(***************************************************************************)
(* What the claims speak of: the pixels of a region.                       *)
(***************************************************************************)
\* The local coordinates <<lx, ly>> of the bits set in region.maskRLE.
SetBits(region) ==
  LET w == region.bounds.width
      mask == decodeMaskFromRLE(region.maskRLE, w * region.bounds.height)
  IN { <<(p - 1) % w, (p - 1) \div w>> : p \in { q \in DOMAIN mask : mask[q] = 1 } }

\* bounds is the tight box: a set bit in each border row and column.
TightBounds(region) ==
  LET bits == SetBits(region)
  IN /\ \E b \in bits : b[1] = 0
     /\ \E b \in bits : b[1] = region.bounds.width - 1
     /\ \E b \in bits : b[2] = 0
     /\ \E b \in bits : b[2] = region.bounds.height - 1

\* Every set bit is a pixel of the image within the cutoff of colour seed.
Contained(region, img, seed, tolerance) ==
  \A b \in SetBits(region) :
    LET ax == region.bounds.x + b[1]
        ay == region.bounds.y + b[2]
        c == PixelAt(img, ay * img.width + ax)
    IN /\ ax >= 0 /\ ax < img.width /\ ay >= 0 /\ ay < img.height
       /\ seed.r # undefined
       /\ WithinTolerance(
            colorDistanceSquared(c.r, c.g, c.b, seed.r, seed.g, seed.b), tolerance)

SelSeedInside ==
  /\ selInput[1].x >= 0 /\ selInput[1].x < selInput[1].imageData.width
  /\ selInput[1].y >= 0 /\ selInput[1].y < selInput[1].imageData.height

(***************************************************************************)
(* C6.  Every pixel set in the mask magicSelect returns, mapped back to    *)
(* absolute coordinates through bounds, is within the cutoff of the seed   *)
(* colour, and bounds is the tight bounding box of the selected pixels.    *)
(* (The statement of the claim; magicSelect violates it for the seeds      *)
(* outside the image that it accepts, see C4.)                             *)
(***************************************************************************)
C6_ContainedAndTight ==
  selRegion # <<>> =>
    /\ Contained(selRegion[1], selInput[1].imageData, selSeedColor,
                 selInput[1].tolerance)
    /\ TightBounds(selRegion[1])

\* The same for the seeds inside the image, where it holds.
SelInsideContainedAndTight ==
  (selRegion # <<>> /\ SelSeedInside) => C6_ContainedAndTight

(***************************************************************************)
(* C7.  For an image, a seed inside it and a tolerance, the region         *)
(* (mask, bounds, pixelCount, averageColor) is the same whatever the order *)
(* in which the pending pixels are taken from the work stack: every order  *)
(* gives the region the code's last-in-first-out order gives.              *)
(***************************************************************************)
C7_OrderIndependent ==
  (selRegion # <<>> /\ SelSeedInside) =>
    selRegion[1] = magicSelect(selInput[1].imageData, selInput[1].x, selInput[1].y,
                               selInput[1].tolerance, 0)

\* A region of several pixels returned after a traversal that did not
\* follow the order of the code.
C7_Witness ==
  /\ selRegion # <<>>
  /\ SelSeedInside
  /\ ~selLifo
  /\ selRegion[1].pixelCount >= 3

(***************************************************************************)
(* What the claims speak of: the regions the app holds.                    *)
(***************************************************************************)
\* The regions the app holds, by mask, bounds and pixelCount.
AppRegions ==
  { [maskRLE |-> r.maskRLE, bounds |-> r.bounds, pixelCount |-> r.pixelCount] :
      r \in { appSettings.magicSelection.previewRegion[i] :
                i \in 1..Len(appSettings.magicSelection.previewRegion) }
            \cup { appSettings.magicSelection.appliedRegions[i] :
                     i \in 1..Len(appSettings.magicSelection.appliedRegions) } }

CountedAndTight(region) ==
  /\ region.pixelCount = Cardinality(SetBits(region))
  /\ TightBounds(region)

(***************************************************************************)
(* C8.  Every region held in previewRegion or appliedRegions has           *)
(* pixelCount equal to the number of bits set in its decoded mask and      *)
(* bounds equal to the tight bounding box of those bits, regions made by   *)
(* consolidation included.  (The statement of the claim; consolidation     *)
(* violates it.)                                                           *)
(***************************************************************************)
C8_RegionsCountedAndTight == \A region \in AppRegions : CountedAndTight(region)

(***************************************************************************)
(* The applied regions of the job, and the pixels they cover: region       *)
(* covers (x, y) when the bit of its mask at (x - bounds.x, y - bounds.y)  *)
(* is set.                                                                 *)
(***************************************************************************)
PixJobRegions == pixJob[1].settings.magicSelection.appliedRegions

PixCovers(region, x, y) ==
  LET lx == x - region.bounds.x
      ly == y - region.bounds.y
      w == region.bounds.width
      h == region.bounds.height
  IN /\ lx \in 0..(w - 1)
     /\ ly \in 0..(h - 1)
     /\ decodeMaskFromRLE(region.maskRLE, w * h)[ly * w + lx + 1] = 1

PixCovering(x, y) ==
  { i \in 1..Len(PixJobRegions) : PixCovers(PixJobRegions[i], x, y) }

\* The alpha the statement gives the pixel of index p.
PixExpected(p) ==
  LET x == p % pixJob[1].imageData.width
      y == p \div pixJob[1].imageData.width
  IN IF PixCovering(x, y) # {}
     THEN (IF PixJobRegions[SetMax(PixCovering(x, y))].mode = "keep"
           THEN 255 ELSE 0)
     ELSE pixBefore[1][p + 1]

PixRegionsInside ==
  \A i \in 1..Len(PixJobRegions) :
    LET bounds == PixJobRegions[i].bounds
    IN /\ bounds.x >= 0
       /\ bounds.y >= 0
       /\ bounds.x + bounds.width <= pixJob[1].imageData.width
       /\ bounds.y + bounds.height <= pixJob[1].imageData.height

(***************************************************************************)
(* C9.  In the buffer of a completed process job every pixel covered by an *)
(* applied region has alpha 255 when the last region of the list that      *)
(* covers it has mode keep and 0 when it has mode remove, whatever         *)
(* classification left there, and every pixel covered by no region has the *)
(* alpha classification left.  (The statement of the claim; the stamping   *)
(* loop violates it for a region that reaches beyond the image.)           *)
(***************************************************************************)
C9_LastRegionWins ==
  pixDone # <<>> =>
    \A p \in 0..(totalPixels(pixJob[1].imageData) - 1) :
      pixDone[1][p + 1] = PixExpected(p)

\* The same for the jobs whose regions all lie inside the image.
PixInsideLastRegionWins ==
  (pixDone # <<>> /\ PixRegionsInside) =>
    \A p \in 0..(totalPixels(pixJob[1].imageData) - 1) :
      pixDone[1][p + 1] = PixExpected(p)

\* A completed job in which a keep region overrides a remove region and a
\* remove region overrides a pixel that classification left opaque.
PixInsideWitness ==
  /\ pixDone # <<>>
  /\ PixRegionsInside
  /\ \E p \in 0..(totalPixels(pixJob[1].imageData) - 1) :
       LET x == p % pixJob[1].imageData.width
           y == p \div pixJob[1].imageData.width
       IN /\ Cardinality(PixCovering(x, y)) = 2
          /\ PixJobRegions[SetMax(PixCovering(x, y))].mode = "keep"
          /\ PixJobRegions[SetMin(PixCovering(x, y))].mode = "remove"
          /\ pixBefore[1][p + 1] = 0
          /\ pixDone[1][p + 1] = 255

(***************************************************************************)
(* C11.  With edgeMode hard every pixel of the buffer of a completed       *)
(* process job has alpha 0 or 255, for every input buffer, inputs with     *)
(* half-transparent pixels included, every mode and every list of applied  *)
(* regions.  (The statement of the claim; a pixel that matches nothing     *)
(* keeps the alpha of the input.)                                          *)
(***************************************************************************)
PixTotal == totalPixels(pixJob[1].imageData)

PixNoMatch ==
  \A p \in 1..PixTotal :
    ~pixelMatch(dominantColorOf(pixJob[1].imageData, pixJob[1].settings),
                pixJob[1].settings, pixJob[1].imageData.data[p]).hit

C12_NoMatchKeepsAlpha ==
  (pixDone # <<>> /\ PixNoMatch /\ PixJobRegions = <<>>) =>
    pixDone[1] = pixJob[1].imageData.alpha

\* The same for the edge modes hard and feathered only.
PixBasicNoMatchKeepsAlpha ==
  (/\ pixDone # <<>>
   /\ PixNoMatch
   /\ PixJobRegions = <<>>
   /\ ~useAdvancedEdge(pixJob[1].settings)) =>
    pixDone[1] = pixJob[1].imageData.alpha

\* A completed job without a match and without a region on an input that
\* is not opaque, in each of the two edge modes.
PixBasicNoMatchWitness ==
  /\ pixDone # <<>>
  /\ PixNoMatch
  /\ PixJobRegions = <<>>
  /\ pixJob[1].settings.edgeMode = "feathered"
  /\ \E p \in 1..PixTotal : pixJob[1].imageData.alpha[p] = 128

(***************************************************************************)
(* C13.  In manual mode with edgeMode hard, for a fixed buffer and any two *)
(* thresholds t1 <= t2 in 0..255, the pixels classified as background      *)
(* (alpha set to 0) with t1 are among those classified as background with  *)
(* t2.  Checked on the buffer of every manual hard job once phase 1 has    *)
(* run, for all the pairs of thresholds.                                   *)
(***************************************************************************)
PixThresholds == 0..255

\* The pixels of the job's buffer that phase 1 sets to alpha 0 when the
\* threshold is t (the buffer taken opaque, so that 0 is a written 0).
PixBackground(t) ==
  LET opaque == [pixJob[1].imageData EXCEPT
                   !.alpha = [p \in 1..PixTotal |-> 255]]
      alpha == classifyHard(opaque, [pixJob[1].settings EXCEPT !.threshold = t])
  IN { p \in 1..PixTotal : alpha[p] = 0 }

PixManualHardClassified ==
  /\ pixBefore # <<>>
  /\ pixDone = <<>>
  /\ PixJobRegions = <<>>
  /\ pixJob[1].settings.mode = "manual"
  /\ pixJob[1].settings.edgeMode = "hard"

C13_ThresholdMonotone ==
  PixManualHardClassified =>
    LET background == [t \in PixThresholds |-> PixBackground(t)]
    IN /\ \A t1, t2 \in PixThresholds :
            t1 <= t2 => background[t1] \subseteq background[t2]
       /\ \A p \in 1..PixTotal :
            pixJob[1].imageData.alpha[p] # 0 =>
              (pixBefore[1][p] = 0
                 <=> p \in background[pixJob[1].settings.threshold])

\* A classified buffer whose background grows twice between thresholds 0
\* and 255 without ever holding every pixel.
C13_Witness ==
  /\ PixManualHardClassified
  /\ PixBackground(0) = {}
  /\ \E t1, t2 \in {16, 31} :
       /\ PixBackground(t1) # {}
       /\ PixBackground(t1) # PixBackground(t2)
       /\ PixBackground(t1) \subseteq PixBackground(t2)
  /\ Cardinality(PixBackground(255)) < PixTotal

(***************************************************************************)
(* C14.  For every binary mask M of any length, the empty, the all-zero    *)
(* and the all-one mask included, decodeMaskFromRLE(encodeMaskToRLE(M),    *)
(* length(M)) equals M.                                                    *)
(***************************************************************************)
C14_RoundTrip ==
  rleDecoded # <<>> =>
    /\ rleDecoded[1].a = rleIn.a
    /\ rleDecoded[1].b = rleIn.b

\* A round trip of a mask with two runs, the second one open at the end of
\* the mask, next to the round trip of the all-zero mask.
C14_Witness ==
  /\ rleDecoded # <<>>
  /\ Len(rleEncoded[1].a) = 4
  /\ rleIn.a[1] = 0
  /\ rleIn.a[Len(rleIn.a)] = 1
  /\ rleDecoded[1].a = rleIn.a
  /\ rleEncoded[1].b = <<>>
  /\ rleDecoded[1].b = [p \in 1..Len(rleIn.b) |-> 0]

(***************************************************************************)
(* C15.  For RLE masks a and b that encode masks of the same size,         *)
(* mergeRLEMasks(a, b, size) equals mergeRLEMasks(b, a, size) element for  *)
(* element, mergeRLEMasks(a, a, size) equals a, and the decoded result is  *)
(* the bitwise OR of the two decoded masks.                                *)
(***************************************************************************)
C15_MergeIsOr ==
  rleMerged # <<>> =>
    /\ rleMerged[1].ab = rleMerged[1].ba
    /\ rleMerged[1].aa = rleEncoded[1].a
    /\ decodeMaskFromRLE(rleMerged[1].ab, Len(rleIn.a))
         = [i \in 1..Len(rleIn.a) |->
              IF rleIn.a[i] = 1 \/ rleIn.b[i] = 1 THEN 1 ELSE 0]

\* A merge of two masks neither of which holds the other, whose result
\* joins runs of both.
C15_Witness ==
  /\ rleMerged # <<>>
  /\ \E i \in 1..Len(rleIn.a) : rleIn.a[i] = 1 /\ rleIn.b[i] = 0
  /\ \E i \in 1..Len(rleIn.a) : rleIn.a[i] = 0 /\ rleIn.b[i] = 1
  /\ Len(rleMerged[1].ab) < Len(rleEncoded[1].a) + Len(rleEncoded[1].b)
  /\ rleMerged[1].ab = rleMerged[1].ba

(***************************************************************************)
(* C16.  The output of encodeMaskToRLE is in canonical form for every      *)
(* mask: the pairs are sorted by strictly increasing start, every length   *)
(* is at least 1, and each run ends at least one index before the next run *)
(* starts.  The same holds for every RLE produced by mergeRLEMasks.        *)
(***************************************************************************)
RleCanonical(rle) ==
  /\ Len(rle) % 2 = 0
  /\ \A k \in 1..(Len(rle) \div 2) :
       /\ rle[2 * k - 1] >= 0
       /\ rle[2 * k] >= 1
       /\ 2 * k < Len(rle) =>
            /\ rle[2 * k - 1] < rle[2 * k + 1]
            /\ rle[2 * k - 1] + rle[2 * k] < rle[2 * k + 1]

C16_Canonical ==
  /\ rleEncoded # <<>> =>
       RleCanonical(rleEncoded[1].a) /\ RleCanonical(rleEncoded[1].b)
  /\ rleMerged # <<>> =>
       /\ RleCanonical(rleMerged[1].ab)
       /\ RleCanonical(rleMerged[1].ba)
       /\ RleCanonical(rleMerged[1].aa)

\* A merge whose two inputs have runs that touch: the result has one run
\* where the inputs together have two.
C16_Witness ==
  /\ rleMerged # <<>>
  /\ Len(rleEncoded[1].a) = 2
  /\ Len(rleEncoded[1].b) = 4
  /\ rleEncoded[1].a[1] + rleEncoded[1].a[2] = rleEncoded[1].b[3]
  /\ Len(rleMerged[1].ab) = 4
  /\ RleCanonical(rleMerged[1].ab)

(***************************************************************************)
(* C17.  Within one process job every progress value lies in 0..100 and is *)
(* at least 10 points greater than the previous progress value of the job; *)
(* when an advanced edge mode runs, the values posted during               *)
(* classification are at most 50 and those posted during refinement are    *)
(* greater than 50.                                                        *)
(***************************************************************************)
\* The places of the outbox that hold a progress message of request j.
ProgressPlaces(j) == { i \in Answers(j) : outbox[i].msg.type = "progress" }

ProgressThrottled ==
  \A j \in ProcessIds :
    \A i \in ProgressPlaces(j) :
      /\ outbox[i].msg.progress \in 0..100
      /\ \A h \in ProgressPlaces(j) :
           h < i => outbox[i].msg.progress
                      >= outbox[h].msg.progress + PROGRESS_UPDATE_INTERVAL

\* The responses a step appends to the outbox.
NewPosts == SubSeq(outbox', Len(outbox) + 1, Len(outbox'))

\* The step runs a pass of the phase 1 loop of request j: the dispatch of
\* the request, or a timer that resumes before the last chunk is done.
ClassifiesIn(j) ==
  \/ Dispatches("process") /\ Head(inbox) = j
  \/ /\ inbox' = inbox
     /\ timers # <<>>
     /\ Head(timers).req = j
     /\ Head(timers).chunkStart + chunkSize < totalPixels(sent[j].imageData)

C17_PhaseStep ==
  \A i \in 1..Len(NewPosts) :
    LET e == NewPosts[i]
    IN (e.msg.type = "progress" /\ useAdvancedEdge(sent[e.to].settings)) =>
         IF ClassifiesIn(e.to) THEN e.msg.progress <= 50
         ELSE e.msg.progress > 50

C17_ProgressSteps ==
  /\ []ProgressThrottled
  /\ [][C17_PhaseStep]_vars

\* A finished job of three chunks with an advanced edge mode: two values
\* from classification, the third chunk's 50 held back, three values from
\* refinement.
C17_Witness ==
  \E j \in ProcessIds :
    /\ Finished(j)
    /\ useAdvancedEdge(sent[j].settings)
    /\ { outbox[i].msg.progress : i \in ProgressPlaces(j) } = {21, 42, 60, 80, 95}

(***************************************************************************)
(* C18.  calculateAutoThreshold returns a threshold in the closed range    *)
(* [20, 150] for every image buffer, a uniform-colour image and an image   *)
(* whose every sampled pixel falls into one histogram bin included.        *)
(***************************************************************************)
C18_ThresholdClamped ==
  autoOut # <<>> =>
    /\ 20 * autoOut[1].threshold.den <= autoOut[1].threshold.num
    /\ autoOut[1].threshold.num <= 150 * autoOut[1].threshold.den

\* A black image of one row: every sample lies in the last bin, the Otsu
\* loop computes no variance and the threshold 0 is raised to 20.
C18_Witness ==
  /\ autoOut # <<>>
  /\ autoIn[1].width > 4
  /\ \A p \in 1..totalPixels(autoIn[1]) :
       (p - 1) % 4 = 0 => autoIn[1].data[p] = Black
  /\ autoOut[1].threshold.num = 20 * autoOut[1].threshold.den

\* Two shades sampled, neither the dominant colour: the threshold found
\* lies inside the range.
C18_InsideWitness ==
  /\ autoOut # <<>>
  /\ 20 * autoOut[1].threshold.den < autoOut[1].threshold.num
  /\ autoOut[1].threshold.num < 150 * autoOut[1].threshold.den

(***************************************************************************)
(* C19.  Submitting a job through the hook's processImage leaves the       *)
(* caller's ImageData untouched: its buffer is not detached and none of    *)
(* its bytes change, before, during and after the job, because only a      *)
(* clone is transferred to the worker.                                     *)
(***************************************************************************)
HookCallerAttached == hookCaller # <<>> => ~hookCaller[1].detached

C19_CallerUntouched ==
  /\ []HookCallerAttached
  /\ [][hookCaller' = hookCaller]_vars

\* A job went to the worker and came back: onComplete received alpha bytes
\* that differ from the caller's, which are those the caller passed.
C19_Witness ==
  /\ hookCaller # <<>>
  /\ hookCompleted # <<>>
  /\ ~hookCaller[1].detached
  /\ hookCompleted[1].data = hookCaller[1].data
  /\ hookCompleted[1].alpha # hookCaller[1].alpha

(***************************************************************************)
(* C20.  For every image, in-bounds seed and tolerance >= 0, the pixels    *)
(* magicSelect selects are exactly the 4-connected component of the seed   *)
(* in the set of pixels within the cutoff of the seed colour: no accepted  *)
(* pixel reachable from the seed through accepted 4-neighbours is left     *)
(* out, and no pixel outside that component is selected.  (A 4 x 4 white   *)
(* image with one black pixel at (2, 2), seed (0, 0), tolerance 10: the 15 *)
(* white pixels, bounds {0, 0, 4, 4}.)                                     *)
(***************************************************************************)
\* The pixels of img within the cutoff of colour seed, as indexes y * width + x.
SelAccepted(img, seed, tolerance) ==
  { p \in 0..(totalPixels(img) - 1) :
      LET c == PixelAt(img, p)
      IN WithinTolerance(
           colorDistanceSquared(c.r, c.g, c.b, seed.r, seed.g, seed.b),
           tolerance) }

\* Pixels p and q of img share an edge.
FourNeighbours(img, p, q) ==
  \/ p \div img.width = q \div img.width /\ (p - q = 1 \/ q - p = 1)
  \/ p - q = img.width
  \/ q - p = img.width

RECURSIVE FourComponent(_, _, _)
\* The accepted pixels joined to those of S by chains of 4-neighbours.
FourComponent(img, accepted, S) ==
  LET next == S \cup { q \in accepted : \E p \in S : FourNeighbours(img, p, q) }
  IN IF next = S THEN S ELSE FourComponent(img, accepted, next)

\* The pixels set in the mask of the region, as indexes of the image.
SelSelected(region, img) ==
  { (region.bounds.y + b[2]) * img.width + region.bounds.x + b[1] :
      b \in SetBits(region) }

C20_ExactComponent ==
  (selRegion # <<>> /\ SelSeedInside) =>
    LET img == selInput[1].imageData
        accepted == SelAccepted(img, selSeedColor, selInput[1].tolerance)
        seedIdx == selInput[1].y * img.width + selInput[1].x
        component == FourComponent(img, accepted, {seedIdx} \cap accepted)
    IN /\ SelSelected(selRegion[1], img) = component
       /\ selRegion[1].pixelCount = Cardinality(component)

\* The scenario of the 4 x 4 image.
C20_Witness ==
  /\ selRegion # <<>>
  /\ selInput[1].imageData = ImageD
  /\ selInput[1].x = 0 /\ selInput[1].y = 0 /\ selInput[1].tolerance = 10
  /\ selRegion[1].pixelCount = 15
  /\ selRegion[1].bounds = [x |-> 0, y |-> 0, width |-> 4, height |-> 4]
  /\ SelSelected(selRegion[1], ImageD) = (0..15) \ {10}

(***************************************************************************)
(* C21.  In colorPicker mode each pixel is tested against the selected     *)
(* colours in list order and the first colour whose squared distance is    *)
(* strictly less than its tolerance squared decides the pixel: later       *)
(* colours never change the alpha written, a pixel whose distance equals   *)
(* the tolerance exactly is not matched, and a colour with tolerance 0     *)
(* matches no pixel.                                                       *)
(***************************************************************************)
\* The squared distance of pixel p of the job to its selected colour j.
PickDistSq(p, j) ==
  LET c == pixJob[1].imageData.data[p]
      s == pixJob[1].settings.selectedColors[j]
  IN colorDistanceSquared(c.r, c.g, c.b, s.r, s.g, s.b)

PickMatches(p, j) ==
  LET tolerance == pixJob[1].settings.selectedColors[j].tolerance
  IN /\ tolerance # 0
     /\ PickDistSq(p, j) # tolerance * tolerance
     /\ PickDistSq(p, j) <= tolerance * tolerance

\* The selected colours that decide pixel p: none or one.
PickDeciding(p) ==
  { j \in 1..Len(pixJob[1].settings.selectedColors) :
      PickMatches(p, j) /\ \A k \in 1..(j - 1) : ~PickMatches(p, k) }

\* What phase 1 writes for pixel p when colour j decides it.
PickWritten(p, j) ==
  LET dist == sqrtExact(PickDistSq(p, j))
      tolerance == pixJob[1].settings.selectedColors[j].tolerance
  IN IF useAdvancedEdge(pixJob[1].settings)
     THEN RoundDiv(255 * dist, tolerance)
     ELSE IF pixJob[1].settings.edgeMode = "hard" THEN 0
          ELSE gaussianFalloff(dist, 7 * tolerance,
                               pixJob[1].settings.featherRadius)

\* Phase 1 of a colour picker job is done: its outcome is pixMask with an
\* advanced edge mode and pixBefore otherwise.
PickClassified ==
  /\ pixJob # <<>>
  /\ pixJob[1].settings.mode = "colorPicker"
  /\ IF useAdvancedEdge(pixJob[1].settings) THEN pixMask # <<>>
     ELSE pixBefore # <<>>

C21_FirstMatchDecides ==
  PickClassified =>
    \A p \in 1..totalPixels(pixJob[1].imageData) :
      LET written == IF useAdvancedEdge(pixJob[1].settings)
                     THEN pixMask[1][p] ELSE pixBefore[1][p]
          untouched == IF useAdvancedEdge(pixJob[1].settings)
                       THEN 255 ELSE pixJob[1].imageData.alpha[p]
      IN /\ PickDeciding(p) = {} => written = untouched
         /\ \A j \in PickDeciding(p) : written = PickWritten(p, j)

\* A feathered job with a pixel that two colours match, decided by the
\* first where the second would have written another alpha.
C21_Witness ==
  /\ PickClassified
  /\ \E p \in 1..totalPixels(pixJob[1].imageData) :
       \E j \in PickDeciding(p) :
         \E k \in (j + 1)..Len(pixJob[1].settings.selectedColors) :
           /\ PickMatches(p, k)
           /\ PickWritten(p, j) # PickWritten(p, k)
           /\ pixBefore[1][p] = PickWritten(p, j)

\* A job whose first colour has tolerance 0 and whose second colour lies
\* at exactly its tolerance of a pixel: that pixel keeps its alpha.
C21_EdgeWitness ==
  /\ PickClassified
  /\ pixJob[1].settings.selectedColors[1].tolerance = 0
  /\ \E p \in 1..totalPixels(pixJob[1].imageData) :
       /\ PickDistSq(p, 2) = pixJob[1].settings.selectedColors[2].tolerance
                               * pixJob[1].settings.selectedColors[2].tolerance
       /\ pixBefore[1][p] = pixJob[1].imageData.alpha[p]
       /\ pixBefore[1][p] # 0

(***************************************************************************)
(* C22.  The mask of a region produced by consolidation, mapped to         *)
(* absolute image coordinates through its bounds, is exactly the union of  *)
(* the absolute pixel sets of the same-mode regions that were merged,      *)
(* including when a run of a source region spans several rows of that      *)
(* region's bounding box and starts at a non-zero column.  (The statement  *)
(* of the claim; the run splitting of mergeRegionsOfSameMode violates it,  *)
(* see C8.)                                                                *)
(***************************************************************************)
\* The pixels of the image that the mask of the region names.
AbsolutePixels(region) ==
  { <<region.bounds.x + b[1], region.bounds.y + b[2]>> : b \in SetBits(region) }

\* The pixels named by the regions of a list that have the mode.
ModePixels(regions, mode) ==
  UNION { AbsolutePixels(regions[i]) :
            i \in { k \in 1..Len(regions) : regions[k].mode = mode } }

\* The step commits the preview onto a full list: APPLY_MAGIC_REGION
\* consolidates.
ConsolidatingStep ==
  /\ Len(appSettings.magicSelection.appliedRegions) = MAX_MAGIC_REGIONS
  /\ appSettings.magicSelection.previewRegion # <<>>
  /\ appSettings'.magicSelection.previewRegion = <<>>
  /\ Len(appSettings'.magicSelection.appliedRegions) \in 1..2

\* The list the step consolidated: the applied regions and the preview
\* with the mode it was committed in, which is the mode of the region the
\* new list has for it.
ConsolidatedFrom(mode) ==
  Append(appSettings.magicSelection.appliedRegions,
         [appSettings.magicSelection.previewRegion[1] EXCEPT !.mode = mode])

C22_StepKeepsUnion ==
  ConsolidatingStep =>
    \E committed \in {"keep", "remove"} :
      \A mode \in {"keep", "remove"} :
        ModePixels(appSettings'.magicSelection.appliedRegions, mode)
          = ModePixels(ConsolidatedFrom(committed), mode)

C22_ConsolidationIsUnion == [][C22_StepKeepsUnion]_vars

(***************************************************************************)
(* C23: consolidation preserves the stamping outcome.  For every step that *)
(* consolidates a list of applied regions holding both keep and remove     *)
(* regions, stamping the consolidated list gives every pixel the alpha     *)
(* that stamping the original list in order gives it.  The loop of lines   *)
(* 657-683 writes a pixel once for each region whose mask has its bit, in  *)
(* list order, so the alpha it leaves is that of the last such region; a   *)
(* pixel of no region keeps its alpha, here 128, so that a pixel set to    *)
(* 255, a pixel set to 0 and a pixel left alone all differ.                *)
(***************************************************************************)
StampingOf(img, regions, p) ==
  { i \in 1..Len(regions) :
      \E a \in AbsolutePixels(regions[i]) : a[2] * img.width + a[1] = p }

MixedModes(regions) ==
  /\ \E i \in 1..Len(regions) : regions[i].mode = "keep"
  /\ \E i \in 1..Len(regions) : regions[i].mode = "remove"

StampedOn(img, regions) ==
  [p \in 0..(totalPixels(img) - 1) |->
     LET stamping == StampingOf(img, regions, p)
     IN IF stamping = {} THEN 128
        ELSE IF regions[CHOOSE i \in stamping : \A j \in stamping : j <= i].mode
                  = "keep"
             THEN 255 ELSE 0]

C23_StepKeepsStamp ==
  ConsolidatingStep =>
    \A committed \in {"keep", "remove"} :
      ( /\ MixedModes(ConsolidatedFrom(committed))
        /\ appSettings'.magicSelection.appliedRegions
             = consolidateRegions(ConsolidatedFrom(committed), uuid, uuid + 1) )
      => StampedOn(appImage[1], appSettings'.magicSelection.appliedRegions)
           = StampedOn(appImage[1], ConsolidatedFrom(committed))

C23_ConsolidationKeepsStamp == [][C23_StepKeepsStamp]_vars

\* The same for lists whose regions are single pixels, whose runs never
\* continue on a second row.
SinglePixels(regions) ==
  \A i \in 1..Len(regions) :
    regions[i].bounds.width = 1 /\ regions[i].bounds.height = 1

C23_StepKeepsStampOfPixels ==
  ConsolidatingStep =>
    \A committed \in {"keep", "remove"} :
      ( /\ MixedModes(ConsolidatedFrom(committed))
        /\ SinglePixels(ConsolidatedFrom(committed))
        /\ appSettings'.magicSelection.appliedRegions
             = consolidateRegions(ConsolidatedFrom(committed), uuid, uuid + 1) )
      => StampedOn(appImage[1], appSettings'.magicSelection.appliedRegions)
           = StampedOn(appImage[1], ConsolidatedFrom(committed))

C23_PixelListsKeepStamp == [][C23_StepKeepsStampOfPixels]_vars

(***************************************************************************)
(* C24: appliedRegions never holds more than MAX_MAGIC_REGIONS regions; a  *)
(* commit onto a full list leaves at most one keep region and at most one  *)
(* remove region, and no preview region and no click coordinates.          *)
(***************************************************************************)
RegionsOfMode(regions, mode) ==
  { i \in 1..Len(regions) : regions[i].mode = mode }

AppliedWithinLimit ==
  Len(appSettings.magicSelection.appliedRegions) <= MAX_MAGIC_REGIONS

\* APPLY_MAGIC_REGION on a list of MAX_MAGIC_REGIONS regions.
CommitOntoFull ==
  /\ Len(appSettings.magicSelection.appliedRegions) = MAX_MAGIC_REGIONS
  /\ appSettings.magicSelection.previewRegion # <<>>
  /\ appSettings'.magicSelection.appliedRegions
       # appSettings.magicSelection.appliedRegions
  /\ \E mode \in {"keep", "remove"} :
       appSettings'.magicSelection.appliedRegions
         = AppliedAfter(appSettings.magicSelection,
                        [appSettings.magicSelection.previewRegion[1]
                           EXCEPT !.mode = mode], uuid, uuid + 1)

C24_CommitStep ==
  CommitOntoFull =>
    /\ Cardinality(RegionsOfMode(appSettings'.magicSelection.appliedRegions,
                                 "keep")) <= 1
    /\ Cardinality(RegionsOfMode(appSettings'.magicSelection.appliedRegions,
                                 "remove")) <= 1
    /\ Len(appSettings'.magicSelection.appliedRegions) <= 2
    /\ appSettings'.magicSelection.previewRegion = <<>>
    /\ appSettings'.magicSelection.lastClickCoords = <<>>

C24_AtMostFifty == /\ []AppliedWithinLimit /\ [][C24_CommitStep]_vars

\* A list that a consolidation has replaced: the two ids it drew are beyond
\* those of the answered selections.
C24_Witness ==
  /\ uuid > MAX_MAGIC_REGIONS + selections
  /\ Len(appSettings.magicSelection.appliedRegions) \in 1..2
  /\ appSettings.magicSelection.previewRegion = <<>>
  /\ appSettings.magicSelection.lastClickCoords = <<>>

(***************************************************************************)
(* C25: once the preview is cancelled or committed, previewRegion stays    *)
(* null until the next selection request.  handleMagicCancel and           *)
(* handleMagicApply leave no preview, no click coordinates and no tracked  *)
(* tolerance; handleMagicSelect sets the last two again, and nothing else  *)
(* does while there is no preview.  So in a state without the three no     *)
(* selection was requested since the cancel or commit (or since the        *)
(* start), and no step from it may set the preview.                        *)
(***************************************************************************)
PreviewClosed ==
  /\ appSettings.magicSelection.previewRegion = <<>>
  /\ appSettings.magicSelection.lastClickCoords = <<>>
  /\ lastMagicToleranceRef = <<>>

C25_ClosedStep ==
  PreviewClosed => appSettings'.magicSelection.previewRegion = <<>>

C25_NoStalePreview == [][C25_ClosedStep]_vars

(***************************************************************************)
(* C26: when process requests overlap, the result the App holds once every *)
(* job has finished and every response is handled is that of the request   *)
(* submitted last.                                                         *)
(***************************************************************************)
OverlapSettled ==
  /\ sent # <<>>
  /\ inbox = <<>>
  /\ timers = <<>>
  /\ handled = Len(outbox)

C26_LatestResultStored ==
  OverlapSettled => processedImageData = <<sent[Len(sent)]>>

(***************************************************************************)
(* C27: isProcessing of the hook is true from a call of processImage until *)
(* the hook has handled the terminal response of that very job.            *)
(***************************************************************************)
TerminalHandled(req) ==
  \E i \in 1..handled :
    outbox[i].to = req /\ outbox[i].msg.type \in TerminalTypes

C27_BusyUntilOwnTerminal ==
  (\E req \in 1..Len(sent) : ~TerminalHandled(req)) => isProcessing

(***************************************************************************)
(* C28: a process job submitted while appliedRegions is empty, that is     *)
(* after clearMagicRegions or after the last region was removed and before *)
(* a further commit, carries an empty appliedRegions list.                 *)
(***************************************************************************)
C28_ClearedRegionsNotStamped ==
  (lastJob # <<>> /\ atSubmit[1].applied = <<>>)
    => lastJob[1].settings.magicSelection.appliedRegions = <<>>

(***************************************************************************)
(* C29: the threshold an auto-mode job runs with is the auto threshold of  *)
(* the image the job processes, a value of [20, 150].                      *)
(***************************************************************************)
C29_AutoJobsUseOwnThreshold ==
  (thrJob # <<>> /\ thrJob[1].settings.mode = "auto") =>
    /\ WorkerThreshold(thrJob[1])
         = calculateAutoThreshold(thrJob[1].imageData).threshold
    /\ 20 * WorkerThreshold(thrJob[1]).den <= WorkerThreshold(thrJob[1]).num
    /\ WorkerThreshold(thrJob[1]).num <= 150 * WorkerThreshold(thrJob[1]).den

(***************************************************************************)
(* C30: magicSelect terminates for an in-bounds seed.  A pixel is marked   *)
(* visited before it is pushed, so the stack holds visited pixels, each    *)
(* once, and no accepted pixel; the pixels visited and no longer on the    *)
(* stack are those popped, one more with each pass of the loop and never   *)
(* more than width * height; the result is eventually returned.            *)
(***************************************************************************)
StackIndex(k) ==
  selFill[1].stack[k][2] * selInput[1].imageData.width + selFill[1].stack[k][1]

PushedOnce ==
  /\ \A k \in 1..Len(selFill[1].stack) :
       /\ StackIndex(k) \in selFill[1].visited
       /\ StackIndex(k) \notin selFill[1].selected
  /\ \A k \in 1..Len(selFill[1].stack) :
       \A l \in 1..Len(selFill[1].stack) :
         StackIndex(k) = StackIndex(l) => k = l

Popped == Cardinality(selFill[1].visited) - Len(selFill[1].stack)

PopStep ==
  selFill' # selFill =>
    /\ Popped' = Popped + 1
    /\ Popped' <= totalPixels(selInput[1].imageData)

C30_Terminates ==
  /\ [](SelSeedInside => PushedOnce)
  /\ [][SelSeedInside => PopStep]_vars
  /\ SelSeedInside ~> (selRegion # <<>>)

\* A fill that ends after width * height passes.
C30_Witness ==
  /\ SelSeedInside
  /\ selRegion # <<>>
  /\ selFill[1].stack = <<>>
  /\ Popped = totalPixels(selInput[1].imageData)
  /\ totalPixels(selInput[1].imageData) > 1

(***************************************************************************)
(* C10.  Every process job submitted after a region was committed carries  *)
(* that region, or its consolidation, in its appliedRegions: the list of a *)
(* job holds every region appliedRegions held when the job was submitted.  *)
(* (The statement of the claim; it does not hold.)                         *)
(***************************************************************************)
JobRegions == lastJob[1].settings.magicSelection.appliedRegions

C10_ApplyAllStep ==
  committedMagicRegions' # committedMagicRegions =>
    /\ Len(appSettings.magicSelection.appliedRegions) > 0
    /\ committedMagicRegions' = appSettings.magicSelection.appliedRegions
    /\ appSettings' = appSettings
    /\ ProcessEffect(appImage, appSettings, committedMagicRegions) # <<>>
         => /\ lastJob' # <<>>
            /\ lastJob'[1].settings.magicSelection.appliedRegions
                 = appSettings.magicSelection.appliedRegions

====
